---- MODULE Spec2Model ----
(***************************************************************************)
(* SSFS (giooms/OS_Proj, file_system/src): the single mounted volume of     *)
(* fs.c and its helpers of fs_helpers.c, over a block device (vdisk).       *)
(*                                                                         *)
(* The device is an array of sectors of BLOCK_SIZE bytes; every on-disk     *)
(* structure is kept at byte level (little-endian u32, the inode_t and      *)
(* superblock_t layouts the compiler gives the structs that fs.c memcpy's). *)
(* The sector size is scaled down from 1024 so that the three ranges of the *)
(* pointer tree (direct, indirect, double indirect) fit a small device; the *)
(* derived constants follow it exactly as in the source.                    *)
(*                                                                         *)
(* Every operation is an operator over a machine record m (the globals of   *)
(* fs.c plus the device contents) that returns the new machine and the C    *)
(* return value; an action applies one operation to the state variables.    *)
(***************************************************************************)
EXTENDS Integers, Sequences, FiniteSets, TLC

(***************************************************************************)
(* Constants of the source.                                                *)
(***************************************************************************)
\* 1024 in the source; the sector size of the devices of this model
BLOCK_SIZE == 64
INODE_SIZE == 32
INODES_PER_BLOCK == BLOCK_SIZE \div INODE_SIZE
POINTERS_PER_BLOCK == BLOCK_SIZE \div 4
MAGIC_NUMBER == <<240, 85, 76, 73, 69, 71, 69, 73, 78, 70, 79, 48, 57, 52, 48, 15>>

\* error.h is not part of the sources at hand: distinct negative codes.
E_DISK_ALREADY_MOUNTED == -1
E_DISK_NOT_MOUNTED == -2
E_CORRUPT_DISK == -3
E_OUT_OF_SPACE == -4
E_OUT_OF_INODES == -5
E_INVALID_INODE == -6
E_INVALID_OFFSET == -7
\* the error a vdisk call returns when the device fails
E_VDISK == -20

(***************************************************************************)
(* Bounds of the model.                                                    *)
(***************************************************************************)
\* sectors of the large device image
NumSectors == 27
\* sectors of the small device image
SmallSectors == 3
\* public calls in one run
MaxSteps == 4
\* device calls of one operation after which a fault can no longer be planted
MaxFaultAt == 3

\* Block numbers, sizes and offsets stay far below 2^31 on the devices of this
\* model, where int and uint32_t agree: a uint32_t is the natural number it
\* holds, and no conversion between the two changes a value.

Min(a, b) == IF a < b THEN a ELSE b
Max(a, b) == IF a > b THEN a ELSE b

(***************************************************************************)
(* Byte codecs: what memcpy of a uint32_t / struct does on a little-endian *)
(* machine.                                                                *)
(***************************************************************************)
U32Bytes(v) ==
  <<v % 256, (v \div 256) % 256, (v \div 65536) % 256, (v \div 16777216) % 256>>

GetU32(block, off) ==
  block[off] + 256 * block[off + 1] + 65536 * block[off + 2] + 16777216 * block[off + 3]

ZeroBlock == [k \in 0..(BLOCK_SIZE - 1) |-> 0]

\* memcpy(block + off, bytes, Len(bytes))
PutBytes(block, off, bytes) ==
  [k \in 0..(BLOCK_SIZE - 1) |->
     IF k >= off /\ k < off + Len(bytes) THEN bytes[k - off + 1] ELSE block[k]]

\* the bytes block[off .. off+n) as a sequence
GetBytes(block, off, n) == [k \in 1..n |-> block[off + k - 1]]

\* superblock_t: magic[16], num_blocks, num_inode_blocks, block_size
EncodeSuperblock(sb) ==
  sb.magic \o U32Bytes(sb.num_blocks) \o U32Bytes(sb.num_inode_blocks)
           \o U32Bytes(sb.block_size)

DecodeSuperblock(block) ==
  [magic            |-> GetBytes(block, 0, 16),
   num_blocks       |-> GetU32(block, 16),
   num_inode_blocks |-> GetU32(block, 20),
   block_size       |-> GetU32(block, 24)]

\* inode_t is not packed: valid at byte 0, three padding bytes, size at 4,
\* direct_blocks at 8..23, indirect_block at 24, double_indirect_block at 28.
EncodeInode(inode) ==
  <<inode.valid>> \o inode.pad \o U32Bytes(inode.size)
    \o U32Bytes(inode.direct_blocks[0]) \o U32Bytes(inode.direct_blocks[1])
    \o U32Bytes(inode.direct_blocks[2]) \o U32Bytes(inode.direct_blocks[3])
    \o U32Bytes(inode.indirect_block) \o U32Bytes(inode.double_indirect_block)

DecodeInode(block, off) ==
  [valid                 |-> block[off],
   pad                   |-> GetBytes(block, off + 1, 3),
   size                  |-> GetU32(block, off + 4),
   direct_blocks         |-> [j \in 0..3 |-> GetU32(block, off + 8 + 4 * j)],
   indirect_block        |-> GetU32(block, off + 24),
   double_indirect_block |-> GetU32(block, off + 28)]

\* pointers[k] of a block read as uint32_t[POINTERS_PER_BLOCK]
Pointer(block, k) == GetU32(block, 4 * k)
SetPointer(block, k, v) == PutBytes(block, 4 * k, U32Bytes(v))

(***************************************************************************)
(* The block device (vdisk.c is an external collaborator): a call returns  *)
(* 0, or a negative error when the device fails or the sector is out of    *)
(* range.  m.n counts the device calls of the running operation and        *)
(* m.plan says which of them fail.                                         *)
(***************************************************************************)
NoFault == [at |-> 0, sticky |-> FALSE]

Fails(m) ==
  /\ m.plan.at # 0
  /\ \/ m.n + 1 = m.plan.at
     \/ m.plan.sticky /\ m.n + 1 > m.plan.at

Tick(m) == [m EXCEPT !.n = @ + 1]

size_in_sectors(m) == Cardinality(DOMAIN m.image)

vdisk_read(m, b) ==
  IF Fails(m) \/ b \notin DOMAIN m.image
    THEN [m |-> Tick(m), r |-> E_VDISK, buf |-> ZeroBlock]
    ELSE [m |-> Tick(m), r |-> 0, buf |-> m.image[b]]

vdisk_write(m, b, buf) ==
  IF Fails(m) \/ b \notin DOMAIN m.image
    THEN [m |-> Tick(m), r |-> E_VDISK]
    ELSE [m |-> [Tick(m) EXCEPT !.image[b] = buf], r |-> 0]

vdisk_sync(m) ==
  IF Fails(m) THEN [m |-> Tick(m), r |-> E_VDISK] ELSE [m |-> Tick(m), r |-> 0]

vdisk_on(m) ==
  IF Fails(m) THEN [m |-> Tick(m), r |-> E_VDISK] ELSE [m |-> Tick(m), r |-> 0]

(***************************************************************************)
(* fs_helpers.c                                                            *)
(*                                                                         *)
(* A C function that goes on after a device call is written as one         *)
(* operator per stretch of code between two calls: the operator of a       *)
(* stretch takes the result of the call before it.                         *)
(***************************************************************************)
NumInodes(m) == m.superblock.num_inode_blocks * INODES_PER_BLOCK

\* read_inode after its vdisk_read: memcpy(inode, block + offset, INODE_SIZE)
InodeFromBlock(rd, offset) ==
  IF rd.r # 0 THEN [m |-> rd.m, r |-> rd.r]
  ELSE [m |-> rd.m, r |-> 0, inode |-> DecodeInode(rd.buf, offset)]

read_inode(m, inode_num) ==
  IF ~m.disk_mounted THEN [m |-> m, r |-> E_DISK_NOT_MOUNTED]
  ELSE IF inode_num < 0 \/ inode_num >= NumInodes(m)
    THEN [m |-> m, r |-> E_INVALID_INODE]
  ELSE InodeFromBlock(vdisk_read(m, 1 + (inode_num \div INODES_PER_BLOCK)),
                      (inode_num % INODES_PER_BLOCK) * INODE_SIZE)

\* write_inode writing the inode into an empty block, not the block read
InodeToBlockAlone(rd, block_num, offset, inode) ==
  IF rd.r # 0 THEN [m |-> rd.m, r |-> rd.r]
  ELSE vdisk_write(rd.m, block_num, PutBytes(ZeroBlock, offset, EncodeInode(inode)))

\* write_inode after its vdisk_read: memcpy(block + offset, inode, INODE_SIZE)
\* and the write of the block
InodeToBlock(rd, block_num, offset, inode) ==
  IF rd.r # 0 THEN [m |-> rd.m, r |-> rd.r]
  ELSE vdisk_write(rd.m, block_num, PutBytes(rd.buf, offset, EncodeInode(inode)))

write_inode(m, inode_num, inode) ==
  IF ~m.disk_mounted THEN [m |-> m, r |-> E_DISK_NOT_MOUNTED]
  ELSE IF inode_num < 0 \/ inode_num >= NumInodes(m)
    THEN [m |-> m, r |-> E_INVALID_INODE]
  ELSE InodeToBlock(vdisk_read(m, 1 + (inode_num \div INODES_PER_BLOCK)),
                    1 + (inode_num \div INODES_PER_BLOCK),
                    (inode_num % INODES_PER_BLOCK) * INODE_SIZE, inode)

\* the blocks find_free_block's loop looks at that are free
FreeBlocks(m) ==
  {i \in (1 + m.superblock.num_inode_blocks)..(m.superblock.num_blocks - 1) :
     m.block_bitmap[i] = 0}

\* find_free_block returning block i without marking it used
TakeBlockUnmarked(m, i) == [m |-> m, r |-> i]

\* find_free_block returning the block below the one it marked
TakeBlockBelow(m, i) == [m |-> [m EXCEPT !.block_bitmap[i] = 1], r |-> i - 1]

\* find_free_block once its loop has found block i free
TakeBlock(m, i) == [m |-> [m EXCEPT !.block_bitmap[i] = 1], r |-> i]

\* find_free_block scanning from the last block downwards
find_free_blockHighest(m) ==
  IF ~m.disk_mounted THEN [m |-> m, r |-> E_DISK_NOT_MOUNTED]
  ELSE IF FreeBlocks(m) = {} THEN [m |-> m, r |-> E_OUT_OF_SPACE]
  ELSE TakeBlock(m, CHOOSE x \in FreeBlocks(m) : \A y \in FreeBlocks(m) : x >= y)

find_free_block(m) ==
  IF ~m.disk_mounted THEN [m |-> m, r |-> E_DISK_NOT_MOUNTED]
  ELSE IF FreeBlocks(m) = {} THEN [m |-> m, r |-> E_OUT_OF_SPACE]
  ELSE TakeBlock(m, CHOOSE x \in FreeBlocks(m) : \A y \in FreeBlocks(m) : x <= y)

free_block(m, block_num) ==
  IF m.disk_mounted /\ block_num > 0 /\ block_num < m.superblock.num_blocks
    THEN [m EXCEPT !.block_bitmap[block_num] = 0]
    ELSE m

\* get_block_for_offset after zeroing a new block: free_block when the write
\* failed
ZeroedOrFreed(wr, new_block) ==
  IF wr.r # 0 THEN [m |-> free_block(wr.m, new_block), r |-> wr.r]
  ELSE [m |-> wr.m, r |-> new_block]

\* get_block_for_offset after find_free_block: zero the new block on the device
ZeroNewBlock(f) ==
  IF f.r < 0 THEN f
  ELSE ZeroedOrFreed(vdisk_write(f.m, f.r, ZeroBlock), f.r)

\* the allocation step without the zero-fill of the new block
AllocUnzeroed(m) == find_free_block(m)

\* The allocation step that get_block_for_offset repeats at each of its six
\* allocation sites.
AllocZeroed(m) == ZeroNewBlock(find_free_block(m))

\* the direct range without the store of new_block in the inode
DirectStoreForgets(a, inode, block_index) ==
  [m |-> a.m, inode |-> inode, r |-> a.r]

\* direct range: inode->direct_blocks[block_index] = new_block
DirectStore(a, inode, block_index) ==
  IF a.r < 0 THEN [m |-> a.m, inode |-> inode, r |-> a.r]
  ELSE [m |-> a.m, inode |-> [inode EXCEPT !.direct_blocks[block_index] = a.r],
        r |-> a.r]

\* get_block_for_offset, block_index < 4
DirectBlock(m, inode, block_index, allocate) ==
  IF inode.direct_blocks[block_index] = 0 /\ allocate
    THEN DirectStore(AllocZeroed(m), inode, block_index)
    ELSE [m |-> m, inode |-> inode, r |-> inode.direct_blocks[block_index]]

\* the write-back of a pointer block failing without free_block(new_block)
LeafStoredKeeps(wr, inode, new_block) ==
  IF wr.r # 0 THEN [m |-> wr.m, inode |-> inode, r |-> wr.r]
  ELSE [m |-> wr.m, inode |-> inode, r |-> new_block]

\* after the write-back of a pointer block that got the new block's number
LeafStored(wr, inode, new_block) ==
  IF wr.r # 0 THEN [m |-> free_block(wr.m, new_block), inode |-> inode, r |-> wr.r]
  ELSE [m |-> wr.m, inode |-> inode, r |-> new_block]

\* pointers[index] = new_block, and the write-back of the pointer block
LeafStore(a, inode, parent, index, buf) ==
  IF a.r < 0 THEN [m |-> a.m, inode |-> inode, r |-> a.r]
  ELSE LeafStored(vdisk_write(a.m, parent, SetPointer(buf, index, a.r)), inode, a.r)

\* after the read of the pointer block `parent`
LeafRead(rd, inode, parent, index, allocate) ==
  IF rd.r # 0 THEN [m |-> rd.m, inode |-> inode, r |-> rd.r]
  ELSE IF Pointer(rd.buf, index) = 0 /\ allocate
    THEN LeafStore(AllocZeroed(rd.m), inode, parent, index, rd.buf)
  ELSE [m |-> rd.m, inode |-> inode, r |-> Pointer(rd.buf, index)]

\* The tail shared by the indirect range and the double-indirect range: read
\* the pointer block `parent` and return its entry `index`, allocating the
\* data block and writing the pointer block back when the entry is 0.
LeafEntry(m, inode, parent, index, allocate) ==
  LeafRead(vdisk_read(m, parent), inode, parent, index, allocate)

\* inode->indirect_block = new_block
IndirectNew(a, inode, block_index) ==
  IF a.r < 0 THEN [m |-> a.m, inode |-> inode, r |-> a.r]
  ELSE LeafEntry(a.m, [inode EXCEPT !.indirect_block = a.r], a.r, block_index, TRUE)

\* get_block_for_offset, 4 <= block_index < 4 + POINTERS_PER_BLOCK
IndirectBlock(m, inode, block_index, allocate) ==
  IF inode.indirect_block # 0
    THEN LeafEntry(m, inode, inode.indirect_block, block_index, allocate)
  ELSE IF ~allocate THEN [m |-> m, inode |-> inode, r |-> 0]
  ELSE IndirectNew(AllocZeroed(m), inode, block_index)

\* after the write-back of the double-indirect block that got a new
\* indirect block
DoubleStored(wr, inode, new_block, entry_index) ==
  IF wr.r # 0 THEN [m |-> free_block(wr.m, new_block), inode |-> inode, r |-> wr.r]
  ELSE LeafEntry(wr.m, inode, new_block, entry_index, TRUE)

\* pointers[indirect_index] = new_block, and the write-back
DoubleStore(a, inode, indirect_index, entry_index, buf) ==
  IF a.r < 0 THEN [m |-> a.m, inode |-> inode, r |-> a.r]
  ELSE DoubleStored(vdisk_write(a.m, inode.double_indirect_block,
                                SetPointer(buf, indirect_index, a.r)),
                    inode, a.r, entry_index)

\* after the read of the double-indirect block
DoubleRead(rd, inode, indirect_index, entry_index, allocate) ==
  IF rd.r # 0 THEN [m |-> rd.m, inode |-> inode, r |-> rd.r]
  ELSE IF Pointer(rd.buf, indirect_index) = 0 /\ allocate
    THEN DoubleStore(AllocZeroed(rd.m), inode, indirect_index, entry_index, rd.buf)
  ELSE IF Pointer(rd.buf, indirect_index) = 0
    THEN [m |-> rd.m, inode |-> inode, r |-> 0]
  ELSE LeafEntry(rd.m, inode, Pointer(rd.buf, indirect_index), entry_index, allocate)

\* the double-indirect range once the inode has its double-indirect block
DoubleEntry(m, inode, block_index, allocate) ==
  DoubleRead(vdisk_read(m, inode.double_indirect_block), inode,
             block_index \div POINTERS_PER_BLOCK,
             block_index % POINTERS_PER_BLOCK, allocate)

\* inode->double_indirect_block = new_block
DoubleNew(a, inode, block_index) ==
  IF a.r < 0 THEN [m |-> a.m, inode |-> inode, r |-> a.r]
  ELSE DoubleEntry(a.m, [inode EXCEPT !.double_indirect_block = a.r],
                   block_index, TRUE)

\* get_block_for_offset, 4 + POINTERS_PER_BLOCK <= block_index
DoubleIndirectBlock(m, inode, block_index, allocate) ==
  IF inode.double_indirect_block # 0
    THEN DoubleEntry(m, inode, block_index, allocate)
  ELSE IF ~allocate THEN [m |-> m, inode |-> inode, r |-> 0]
  ELSE DoubleNew(AllocZeroed(m), inode, block_index)

\* get_block_for_offset that allocates whatever the caller's flag says
get_block_for_offsetAllocating(m, inode, offset, allocate) ==
  IF ~m.disk_mounted THEN [m |-> m, inode |-> inode, r |-> E_DISK_NOT_MOUNTED]
  ELSE IF offset < 0 THEN [m |-> m, inode |-> inode, r |-> E_INVALID_OFFSET]
  ELSE IF offset \div BLOCK_SIZE < 4
    THEN DirectBlock(m, inode, offset \div BLOCK_SIZE, TRUE)
  ELSE IF (offset \div BLOCK_SIZE) - 4 < POINTERS_PER_BLOCK
    THEN IndirectBlock(m, inode, (offset \div BLOCK_SIZE) - 4, TRUE)
  ELSE IF (offset \div BLOCK_SIZE) - 4 - POINTERS_PER_BLOCK
            < POINTERS_PER_BLOCK * POINTERS_PER_BLOCK
    THEN DoubleIndirectBlock(m, inode,
                             (offset \div BLOCK_SIZE) - 4 - POINTERS_PER_BLOCK,
                             TRUE)
  ELSE [m |-> m, inode |-> inode, r |-> E_INVALID_OFFSET]

\* Returns the machine, the caller's inode_t (its pointers may have been set)
\* and the int result: a block number, 0 for a hole, or a negative error.
get_block_for_offset(m, inode, offset, allocate) ==
  IF ~m.disk_mounted THEN [m |-> m, inode |-> inode, r |-> E_DISK_NOT_MOUNTED]
  ELSE IF offset < 0 THEN [m |-> m, inode |-> inode, r |-> E_INVALID_OFFSET]
  ELSE IF offset \div BLOCK_SIZE < 4
    THEN DirectBlock(m, inode, offset \div BLOCK_SIZE, allocate)
  ELSE IF (offset \div BLOCK_SIZE) - 4 < POINTERS_PER_BLOCK
    THEN IndirectBlock(m, inode, (offset \div BLOCK_SIZE) - 4, allocate)
  ELSE IF (offset \div BLOCK_SIZE) - 4 - POINTERS_PER_BLOCK
            < POINTERS_PER_BLOCK * POINTERS_PER_BLOCK
    THEN DoubleIndirectBlock(m, inode,
                             (offset \div BLOCK_SIZE) - 4 - POINTERS_PER_BLOCK,
                             allocate)
  ELSE [m |-> m, inode |-> inode, r |-> E_INVALID_OFFSET]

(***************************************************************************)
(* fs.c: format, mount, unmount                                            *)
(***************************************************************************)
\* format's num_inode_blocks rounded down
NumInodeBlocksFloor(inodes) ==
  IF inodes \div INODES_PER_BLOCK <= 0 THEN 1 ELSE inodes \div INODES_PER_BLOCK

\* format's num_inode_blocks for the inodes asked for
NumInodeBlocks(inodes) ==
  LET wanted == IF inodes <= 0 THEN 1 ELSE inodes
      ceil   == (wanted + INODES_PER_BLOCK - 1) \div INODES_PER_BLOCK
  IN  IF ceil <= 0 THEN 1 ELSE ceil

RECURSIVE FormatInodeBlocks(_, _, _)
\* format after the write of inode block i
FormatInodeBlockWritten(wr, i, num_inode_blocks) ==
  IF wr.r # 0 THEN wr ELSE FormatInodeBlocks(wr.m, i + 1, num_inode_blocks)

\* the loop of format that zeroes blocks i..num_inode_blocks
FormatInodeBlocks(m, i, num_inode_blocks) ==
  IF i > num_inode_blocks THEN [m |-> m, r |-> 0]
  ELSE FormatInodeBlockWritten(vdisk_write(m, i, ZeroBlock), i, num_inode_blocks)

\* format after the inode blocks: sync (and close)
FormatSync(wi) == IF wi.r # 0 THEN wi ELSE vdisk_sync(wi.m)

\* format after the write of block 0
FormatSuperWritten(w0, num_inode_blocks) ==
  IF w0.r # 0 THEN w0
  ELSE FormatSync(FormatInodeBlocks(w0.m, 1, num_inode_blocks))

\* format after vdisk_on
FormatOpened(on, num_inode_blocks) ==
  IF on.r # 0 THEN on
  ELSE IF num_inode_blocks + 1 >= size_in_sectors(on.m)
    THEN [m |-> on.m, r |-> E_OUT_OF_SPACE]
  ELSE FormatSuperWritten(
         vdisk_write(on.m, 0,
                     PutBytes(ZeroBlock, 0,
                              EncodeSuperblock(
                                [magic |-> MAGIC_NUMBER,
                                 num_blocks |-> size_in_sectors(on.m),
                                 num_inode_blocks |-> num_inode_blocks,
                                 block_size |-> BLOCK_SIZE]))),
         num_inode_blocks)

format(m, inodes) ==
  IF m.disk_mounted THEN [m |-> m, r |-> E_DISK_ALREADY_MOUNTED]
  ELSE FormatOpened(vdisk_on(m), NumInodeBlocks(inodes))

\* block_bitmap[b] = 1 of mount's reconstruction.  The array has num_blocks
\* entries; a store past its end is recorded in m.oob.
MarkUsed(m, b) ==
  IF b \in DOMAIN m.block_bitmap
    THEN [m EXCEPT !.block_bitmap[b] = 1]
    ELSE [m EXCEPT !.oob = TRUE]

\* if (p != 0) block_bitmap[p] = 1
MarkIf(m, p) == IF p # 0 THEN MarkUsed(m, p) ELSE m

RECURSIVE MarkEntries(_, _, _)
\* the loops of mount that mark the nonzero pointers k.. of a pointer block
MarkEntries(m, buf, k) ==
  IF k >= POINTERS_PER_BLOCK THEN m
  ELSE MarkEntries(MarkIf(m, Pointer(buf, k)), buf, k + 1)

\* mount's exit on a failed read of its reconstruction, keeping the bitmap
MountAbortLeaks(m, result) == [m |-> [m EXCEPT !.disk_on = FALSE], r |-> result]

\* what mount does when a read of its reconstruction fails
MountAbort(m, result) ==
  [m |-> [m EXCEPT !.block_bitmap = <<>>, !.disk_on = FALSE], r |-> result]

\* mount: the direct blocks of a valid inode
MarkDirect(m, inode) ==
  MarkIf(MarkIf(MarkIf(MarkIf(m, inode.direct_blocks[0]), inode.direct_blocks[1]),
                inode.direct_blocks[2]), inode.direct_blocks[3])

\* mount after reading an inode's indirect block
MarkIndirectRead(rd) ==
  IF rd.r # 0 THEN MountAbort(rd.m, rd.r)
  ELSE [m |-> MarkEntries(rd.m, rd.buf, 0), r |-> 0]

\* mount: the indirect block of a valid inode
MarkIndirect(m, inode) ==
  IF inode.indirect_block = 0 THEN [m |-> m, r |-> 0]
  ELSE MarkIndirectRead(vdisk_read(MarkUsed(m, inode.indirect_block),
                                   inode.indirect_block))

RECURSIVE MarkDouble(_, _, _)
\* mount after reading the indirect block at entry j of a double-indirect block
MarkDoubleInner(rd, buf, j) ==
  IF rd.r # 0 THEN MountAbort(rd.m, rd.r)
  ELSE MarkDouble(MarkEntries(rd.m, rd.buf, 0), buf, j + 1)

\* mount: the loop over the entries j.. of the double-indirect block
MarkDouble(m, buf, j) ==
  IF j >= POINTERS_PER_BLOCK THEN [m |-> m, r |-> 0]
  ELSE IF Pointer(buf, j) = 0 THEN MarkDouble(m, buf, j + 1)
  ELSE MarkDoubleInner(vdisk_read(MarkUsed(m, Pointer(buf, j)), Pointer(buf, j)),
                       buf, j)

\* mount after reading an inode's double-indirect block
MarkDoubleRead(rd) ==
  IF rd.r # 0 THEN MountAbort(rd.m, rd.r) ELSE MarkDouble(rd.m, rd.buf, 0)

\* mount: the double-indirect block of a valid inode
MarkDoubleIndirect(ind, inode) ==
  IF ind.r # 0 \/ inode.double_indirect_block = 0 THEN ind
  ELSE MarkDoubleRead(vdisk_read(MarkUsed(ind.m, inode.double_indirect_block),
                                 inode.double_indirect_block))

\* mount: the blocks of one valid inode
MarkInode(m, inode) ==
  MarkDoubleIndirect(MarkIndirect(MarkDirect(m, inode), inode), inode)

RECURSIVE MountScan(_, _)
\* mount's scan after the blocks of slot i are marked
MountScanNext(mk, i) == IF mk.r # 0 THEN mk ELSE MountScan(mk.m, i + 1)

\* mount's scan after read_inode(i, &inode)
MountScanInode(ri, i) ==
  IF ri.r # 0 THEN MountAbort(ri.m, ri.r)
  ELSE IF ri.inode.valid # 0 THEN MountScanNext(MarkInode(ri.m, ri.inode), i)
  ELSE MountScan(ri.m, i + 1)

\* mount: the scan of the inode slots i.. (read_inode is the helper of
\* fs_helpers.c, which refuses while disk_mounted is false)
MountScan(m, i) ==
  IF i >= NumInodes(m) THEN [m |-> m, r |-> 0]
  ELSE MountScanInode(read_inode(m, i), i)

\* mount, step 4 returning the device's code for a bad magic
MountBitmapDeviceCode(m) ==
  IF m.superblock.magic # MAGIC_NUMBER
    THEN [m |-> [m EXCEPT !.disk_on = FALSE], r |-> E_VDISK]
    ELSE [m |-> [m EXCEPT !.block_bitmap =
                    [b \in 0..(m.superblock.num_blocks - 1) |->
                       IF b <= m.superblock.num_inode_blocks THEN 1 ELSE 0],
                  !.oob = m.superblock.num_inode_blocks >= m.superblock.num_blocks],
          r |-> 0]

\* mount, steps 4 to 6 up to the scan: check the magic, allocate the bitmap
\* and mark blocks 0..num_inode_blocks
MountBitmap(m) ==
  IF m.superblock.magic # MAGIC_NUMBER
    THEN [m |-> [m EXCEPT !.disk_on = FALSE], r |-> E_CORRUPT_DISK]
    ELSE [m |-> [m EXCEPT !.block_bitmap =
                    [b \in 0..(m.superblock.num_blocks - 1) |->
                       IF b <= m.superblock.num_inode_blocks THEN 1 ELSE 0],
                  !.oob = m.superblock.num_inode_blocks >= m.superblock.num_blocks],
          r |-> 0]

\* mount, step 3: memcpy(&superblock, block_buffer, sizeof(superblock_t))
MountSuper(rd) ==
  IF rd.r # 0 THEN [m |-> [rd.m EXCEPT !.disk_on = FALSE], r |-> rd.r]
  ELSE MountBitmap([rd.m EXCEPT !.superblock = DecodeSuperblock(rd.buf)])

\* mount after vdisk_on
MountOpened(on) ==
  IF on.r # 0 THEN on
  ELSE MountSuper(vdisk_read([on.m EXCEPT !.disk_on = TRUE], 0))

\* mount without its check of disk_mounted
MountOpenUnguarded(m) == MountOpened(vdisk_on(m))

\* mount, steps 1 to 6 up to the scan of the inodes
MountOpen(m) ==
  IF m.disk_mounted THEN [m |-> m, r |-> E_DISK_ALREADY_MOUNTED]
  ELSE MountOpened(vdisk_on(m))

\* mount, steps 7 and 8: store the name and set the flag
MountFinish(sc) ==
  IF sc.r # 0 THEN sc
  ELSE [m |-> [sc.m EXCEPT !.mounted_disk = "disk", !.disk_mounted = TRUE],
        r |-> 0]

\* mount, the scan of step 6
MountScanAll(o) == IF o.r # 0 THEN o ELSE MountScan(o.m, 0)

mount(m) == MountFinish(MountScanAll(MountOpen(m)))

\* unmount giving up when vdisk_sync fails
UnmountedIfSynced(sy) ==
  IF sy.r # 0 THEN sy
  ELSE [m |-> [sy.m EXCEPT !.block_bitmap = <<>>, !.mounted_disk = "",
                           !.disk_on = FALSE, !.disk_mounted = FALSE],
        r |-> 0]

\* unmount after vdisk_sync
Unmounted(sy) ==
  [m |-> [sy.m EXCEPT !.block_bitmap = <<>>, !.mounted_disk = "",
                      !.disk_on = FALSE, !.disk_mounted = FALSE],
   r |-> sy.r]

unmount(m) ==
  IF ~m.disk_mounted THEN [m |-> m, r |-> E_DISK_NOT_MOUNTED]
  ELSE Unmounted(vdisk_sync(m))

(***************************************************************************)
(* fs.c: create, delete, stat                                              *)
(***************************************************************************)
\* an inode_t with valid set to v, size 0 and all pointers 0
Cleared(inode, v) ==
  [inode EXCEPT !.valid = v, !.size = 0,
                !.direct_blocks = [j \in 0..3 |-> 0],
                !.indirect_block = 0, !.double_indirect_block = 0]

\* create returning the number after the slot it took
CreateWrittenNext(wi, inode_num) ==
  IF wi.r # 0 THEN wi ELSE [m |-> wi.m, r |-> inode_num + 1]

\* create after write_inode
CreateWritten(wi, inode_num) ==
  IF wi.r # 0 THEN wi ELSE [m |-> wi.m, r |-> inode_num]

RECURSIVE CreateScan(_, _)
\* create after read_inode(inode_num, &inode)
CreateSlot(ri, inode_num) ==
  IF ri.r # 0 THEN [m |-> ri.m, r |-> ri.r]
  ELSE IF ri.inode.valid = 0
    THEN CreateWritten(write_inode(ri.m, inode_num, Cleared(ri.inode, 1)), inode_num)
  ELSE CreateScan(ri.m, inode_num + 1)

\* create: the loop over the inode slots inode_num..
CreateScan(m, inode_num) ==
  IF inode_num >= NumInodes(m) THEN [m |-> m, r |-> E_OUT_OF_INODES]
  ELSE CreateSlot(read_inode(m, inode_num), inode_num)

create(m) ==
  IF ~m.disk_mounted THEN [m |-> m, r |-> E_DISK_NOT_MOUNTED]
  ELSE CreateScan(m, 0)

\* if (p != 0) free_block(p)
FreeIf(m, p) == IF p # 0 THEN free_block(m, p) ELSE m

RECURSIVE FreeEntries(_, _, _)
\* delete: free every nonzero pointer k.. of a pointer block
FreeEntries(m, buf, k) ==
  IF k >= POINTERS_PER_BLOCK THEN m
  ELSE FreeEntries(FreeIf(m, Pointer(buf, k)), buf, k + 1)

\* delete, step 5
FreeDirect(m, inode) ==
  FreeIf(FreeIf(FreeIf(FreeIf(m, inode.direct_blocks[0]), inode.direct_blocks[1]),
                inode.direct_blocks[2]), inode.direct_blocks[3])

\* delete, step 6 without the free_block of the indirect block itself
FreeIndirectReadKeeps(rd, inode) ==
  IF rd.r # 0 THEN [m |-> rd.m, r |-> rd.r]
  ELSE [m |-> FreeEntries(rd.m, rd.buf, 0), r |-> 0]

\* delete, step 6 after reading the indirect block
FreeIndirectRead(rd, inode) ==
  IF rd.r # 0 THEN [m |-> rd.m, r |-> rd.r]
  ELSE [m |-> free_block(FreeEntries(rd.m, rd.buf, 0), inode.indirect_block),
        r |-> 0]

\* delete, step 6
FreeIndirect(m, inode) ==
  IF inode.indirect_block = 0 THEN [m |-> m, r |-> 0]
  ELSE FreeIndirectRead(vdisk_read(m, inode.indirect_block), inode)

RECURSIVE FreeDouble(_, _, _)
\* delete, step 7 after reading the indirect block at entry i
FreeDoubleInner(rd, buf, i) ==
  IF rd.r # 0 THEN [m |-> rd.m, r |-> rd.r]
  ELSE FreeDouble(free_block(FreeEntries(rd.m, rd.buf, 0), Pointer(buf, i)),
                  buf, i + 1)

\* delete, step 7: the loop over the entries i.. of the double-indirect block
FreeDouble(m, buf, i) ==
  IF i >= POINTERS_PER_BLOCK THEN [m |-> m, r |-> 0]
  ELSE IF Pointer(buf, i) = 0 THEN FreeDouble(m, buf, i + 1)
  ELSE FreeDoubleInner(vdisk_read(m, Pointer(buf, i)), buf, i)

\* delete, step 7 after the loop: free the double-indirect block itself
FreeDoubleDone(fd, inode) ==
  IF fd.r # 0 THEN fd
  ELSE [m |-> free_block(fd.m, inode.double_indirect_block), r |-> 0]

\* delete, step 7 after reading the double-indirect block
FreeDoubleRead(rd, inode) ==
  IF rd.r # 0 THEN [m |-> rd.m, r |-> rd.r]
  ELSE FreeDoubleDone(FreeDouble(rd.m, rd.buf, 0), inode)

\* delete, step 7
FreeDoubleIndirect(ind, inode) ==
  IF ind.r # 0 \/ inode.double_indirect_block = 0 THEN ind
  ELSE FreeDoubleRead(vdisk_read(ind.m, inode.double_indirect_block), inode)

\* delete, steps 8 and 9: mark the inode free and write it back
DeleteWrite(fr, inode_num, inode) ==
  IF fr.r # 0 THEN fr
  ELSE write_inode(fr.m, inode_num, Cleared(inode, 0))

\* delete, steps 5 to 9, on the inode_t read at step 3
DeleteBlocks(m, inode_num, inode) ==
  DeleteWrite(FreeDoubleIndirect(FreeIndirect(FreeDirect(m, inode), inode), inode),
              inode_num, inode)

\* delete after read_inode
DeleteInode(ri, inode_num) ==
  IF ri.r # 0 THEN [m |-> ri.m, r |-> ri.r]
  ELSE IF ri.inode.valid = 0 THEN [m |-> ri.m, r |-> E_INVALID_INODE]
  ELSE DeleteBlocks(ri.m, inode_num, ri.inode)

delete(m, inode_num) ==
  IF ~m.disk_mounted THEN [m |-> m, r |-> E_DISK_NOT_MOUNTED]
  ELSE IF inode_num < 0 \/ inode_num >= NumInodes(m)
    THEN [m |-> m, r |-> E_INVALID_INODE]
  ELSE DeleteInode(read_inode(m, inode_num), inode_num)

\* stat after read_inode
StatInode(ri) ==
  IF ri.r # 0 THEN [m |-> ri.m, r |-> ri.r]
  ELSE IF ri.inode.valid = 0 THEN [m |-> ri.m, r |-> E_INVALID_INODE]
  ELSE [m |-> ri.m, r |-> ri.inode.size]

\* stat checking the inode number before disk_mounted
statRangeFirst(m, inode_num) ==
  IF inode_num < 0 \/ inode_num >= NumInodes(m)
    THEN [m |-> m, r |-> E_INVALID_INODE]
  ELSE IF ~m.disk_mounted THEN [m |-> m, r |-> E_DISK_NOT_MOUNTED]
  ELSE StatInode(read_inode(m, inode_num))

stat(m, inode_num) ==
  IF ~m.disk_mounted THEN [m |-> m, r |-> E_DISK_NOT_MOUNTED]
  ELSE IF inode_num < 0 \/ inode_num >= NumInodes(m)
    THEN [m |-> m, r |-> E_INVALID_INODE]
  ELSE StatInode(read_inode(m, inode_num))

(***************************************************************************)
(* fs.c: read                                                              *)
(***************************************************************************)
\* read, step 5 without the file size
BytesToReadAll(inode, len, offset) == len

\* read, step 5
BytesToRead(inode, len, offset) ==
  IF offset < inode.size THEN Min(inode.size - offset, len) ELSE 0

\* bytes of the block at file offset current_offset that a transfer of
\* `left` more bytes touches
BytesInBlock(current_offset, left) ==
  Min(BLOCK_SIZE - (current_offset % BLOCK_SIZE), left)

RECURSIVE ReadLoop(_, _, _, _, _)
\* read, step 8 after vdisk_read of the block
ReadBlock(rd, inode, bytes_to_read, offset, data) ==
  IF rd.r # 0
    THEN [m |-> rd.m, r |-> IF Len(data) > 0 THEN Len(data) ELSE rd.r, data |-> data]
    ELSE ReadLoop(rd.m, inode, bytes_to_read, offset,
                  data \o GetBytes(rd.buf, (offset + Len(data)) % BLOCK_SIZE,
                                   BytesInBlock(offset + Len(data),
                                                bytes_to_read - Len(data))))

\* read, step 8 after get_block_for_offset: a hole or an error ends the loop
ReadGot(g, inode, bytes_to_read, offset, data) ==
  IF g.r <= 0 THEN [m |-> g.m, r |-> Len(data), data |-> data]
  ELSE ReadBlock(vdisk_read(g.m, g.r), inode, bytes_to_read, offset, data)

\* read, step 8; data is what has been copied to the caller's buffer so far,
\* bytes_read is its length and current_offset is offset + bytes_read
ReadLoop(m, inode, bytes_to_read, offset, data) ==
  IF Len(data) >= bytes_to_read THEN [m |-> m, r |-> Len(data), data |-> data]
  ELSE ReadGot(get_block_for_offset(m, inode, offset + Len(data), FALSE),
               inode, bytes_to_read, offset, data)

\* read giving the volume up when read_inode fails
ReadInodeDrops(ri, len, offset) ==
  IF ri.r # 0
    THEN [m |-> [ri.m EXCEPT !.disk_mounted = FALSE], r |-> ri.r, data |-> <<>>]
  ELSE IF ri.inode.valid = 0 THEN [m |-> ri.m, r |-> E_INVALID_INODE, data |-> <<>>]
  ELSE IF BytesToRead(ri.inode, len, offset) <= 0
    THEN [m |-> ri.m, r |-> 0, data |-> <<>>]
  ELSE ReadLoop(ri.m, ri.inode, BytesToRead(ri.inode, len, offset), offset, <<>>)

\* read after read_inode
ReadInode(ri, len, offset) ==
  IF ri.r # 0 THEN [m |-> ri.m, r |-> ri.r, data |-> <<>>]
  ELSE IF ri.inode.valid = 0 THEN [m |-> ri.m, r |-> E_INVALID_INODE, data |-> <<>>]
  ELSE IF BytesToRead(ri.inode, len, offset) <= 0
    THEN [m |-> ri.m, r |-> 0, data |-> <<>>]
  ELSE ReadLoop(ri.m, ri.inode, BytesToRead(ri.inode, len, offset), offset, <<>>)

read(m, inode_num, len, offset) ==
  IF ~m.disk_mounted THEN [m |-> m, r |-> E_DISK_NOT_MOUNTED, data |-> <<>>]
  ELSE IF inode_num < 0 \/ inode_num >= NumInodes(m)
    THEN [m |-> m, r |-> E_INVALID_INODE, data |-> <<>>]
  ELSE ReadInode(read_inode(m, inode_num), len, offset)

(***************************************************************************)
(* fs.c: write                                                             *)
(***************************************************************************)
\* byte k of the caller's buffer numbered seed (never 0)
Data(seed, k) == 1 + ((seed * 100 + k) % 255)

\* data[from .. from+n) of the caller's buffer
DataBytes(seed, from, n) == [k \in 1..n |-> Data(seed, from + k - 1)]

\* n zero bytes
Zeros(n) == [k \in 1..n |-> 0]

\* inode.size = (curr_offset > inode.size) ? curr_offset : inode.size
GrowSize(inode, curr_offset) == [inode EXCEPT !.size = Max(curr_offset, @)]

\* The three early exits of the zero fill: the size reached so far goes to
\* the inode, write_inode's result is dropped and the error is returned.
FillExit(m, inode_num, inode, curr_offset, result) ==
  [m |-> write_inode(m, inode_num, GrowSize(inode, curr_offset)).m,
   r |-> result, inode |-> inode, exit |-> TRUE]

RECURSIVE SparseFill(_, _, _, _, _)
\* write, step 5 after the block was written back
FillWritten(wr, inode_num, inode, curr_offset, zero_fill_end) ==
  IF wr.r # 0 THEN FillExit(wr.m, inode_num, inode, curr_offset, wr.r)
  ELSE SparseFill(wr.m, inode_num, inode,
                  curr_offset + BytesInBlock(curr_offset, zero_fill_end - curr_offset),
                  zero_fill_end)

\* write, step 5 after the read of a block filled in part
FillRead(rd, block_num, inode_num, inode, curr_offset, zero_fill_end) ==
  IF rd.r # 0 THEN FillExit(rd.m, inode_num, inode, curr_offset, rd.r)
  ELSE FillWritten(
         vdisk_write(rd.m, block_num,
                     PutBytes(rd.buf, curr_offset % BLOCK_SIZE,
                              Zeros(BytesInBlock(curr_offset,
                                                 zero_fill_end - curr_offset)))),
         inode_num, inode, curr_offset, zero_fill_end)

\* write, step 5 after get_block_for_offset(&inode, curr_offset, true)
FillGot(g, inode_num, curr_offset, zero_fill_end) ==
  IF g.r <= 0 THEN FillExit(g.m, inode_num, g.inode, curr_offset, g.r)
  ELSE IF BytesInBlock(curr_offset, zero_fill_end - curr_offset) < BLOCK_SIZE
    THEN FillRead(vdisk_read(g.m, g.r), g.r, inode_num, g.inode, curr_offset,
                  zero_fill_end)
  ELSE FillWritten(vdisk_write(g.m, g.r, ZeroBlock), inode_num, g.inode,
                   curr_offset, zero_fill_end)

\* write, step 5: the loop that zero-fills [curr_offset, zero_fill_end)
SparseFill(m, inode_num, inode, curr_offset, zero_fill_end) ==
  IF curr_offset >= zero_fill_end
    THEN [m |-> m, r |-> 0, inode |-> inode, exit |-> FALSE]
    ELSE FillGot(get_block_for_offset(m, inode, curr_offset, TRUE),
                 inode_num, curr_offset, zero_fill_end)

\* write_inode(inode_num, &inode); with the result not looked at: lost records
\* that it was a failure
Dropped(w) == [w.m EXCEPT !.lost = @ \/ (w.r # 0)]

\* write's size update without the write_inode
DataGrowForgets(m, inode_num, inode, current_offset) == m

\* write's size update storing a size one block past the bytes written
DataGrowFar(m, inode_num, inode, current_offset) ==
  IF current_offset > inode.size
    THEN Dropped(write_inode(m, inode_num,
                             [inode EXCEPT !.size = current_offset + BLOCK_SIZE]))
    ELSE m

\* if (current_offset > inode.size) { inode.size = current_offset;
\*                                    write_inode(inode_num, &inode); }
DataGrow(m, inode_num, inode, current_offset) ==
  IF current_offset > inode.size
    THEN Dropped(write_inode(m, inode_num, [inode EXCEPT !.size = current_offset]))
    ELSE m

\* write, step 6: a failed vdisk_read or vdisk_write of a data block
DataFail(m, inode_num, inode, offset, bytes_written, result) ==
  IF bytes_written > 0
    THEN [m |-> DataGrow(m, inode_num, inode, offset + bytes_written),
          r |-> bytes_written]
    ELSE [m |-> m, r |-> result]

RECURSIVE DataLoop(_, _, _, _, _, _, _)
\* write, step 6 after the block was written back
DataWritten(wr, inode_num, inode, len, offset, bytes_written, seed) ==
  IF wr.r # 0 THEN DataFail(wr.m, inode_num, inode, offset, bytes_written, wr.r)
  ELSE DataLoop(wr.m, inode_num, inode, len, offset,
                bytes_written + BytesInBlock(offset + bytes_written,
                                             len - bytes_written),
                seed)

\* the block to write back: the caller's bytes copied over the block read
DataBlock(buf, len, offset, bytes_written, seed) ==
  PutBytes(buf, (offset + bytes_written) % BLOCK_SIZE,
           DataBytes(seed, bytes_written,
                     BytesInBlock(offset + bytes_written, len - bytes_written)))

\* write, step 6 after the read of a block written in part
DataRead(rd, block_num, inode_num, inode, len, offset, bytes_written, seed) ==
  IF rd.r # 0 THEN DataFail(rd.m, inode_num, inode, offset, bytes_written, rd.r)
  ELSE DataWritten(vdisk_write(rd.m, block_num,
                               DataBlock(rd.buf, len, offset, bytes_written, seed)),
                   inode_num, inode, len, offset, bytes_written, seed)

\* write's exit on a failed get_block_for_offset, returning the failure
\* whatever was written
DataGotError(g, inode_num, len, offset, bytes_written, seed) ==
  IF g.r <= 0
    THEN [m |-> DataGrow(g.m, inode_num, g.inode, offset + bytes_written),
          r |-> g.r]
  ELSE IF BytesInBlock(offset + bytes_written, len - bytes_written) < BLOCK_SIZE
    THEN DataRead(vdisk_read(g.m, g.r), g.r, inode_num, g.inode, len, offset,
                  bytes_written, seed)
  ELSE DataWritten(vdisk_write(g.m, g.r,
                               DataBlock(ZeroBlock, len, offset, bytes_written, seed)),
                   inode_num, g.inode, len, offset, bytes_written, seed)

\* write, step 6 after get_block_for_offset(&inode, current_offset, true)
DataGot(g, inode_num, len, offset, bytes_written, seed) ==
  IF g.r <= 0
    THEN [m |-> DataGrow(g.m, inode_num, g.inode, offset + bytes_written),
          r |-> IF bytes_written > 0 THEN bytes_written ELSE g.r]
  ELSE IF BytesInBlock(offset + bytes_written, len - bytes_written) < BLOCK_SIZE
    THEN DataRead(vdisk_read(g.m, g.r), g.r, inode_num, g.inode, len, offset,
                  bytes_written, seed)
  ELSE DataWritten(vdisk_write(g.m, g.r,
                               DataBlock(ZeroBlock, len, offset, bytes_written, seed)),
                   inode_num, g.inode, len, offset, bytes_written, seed)

\* write, steps 6 and 7; current_offset is offset + bytes_written
DataLoop(m, inode_num, inode, len, offset, bytes_written, seed) ==
  IF bytes_written >= len
    THEN [m |-> DataGrow(m, inode_num, inode, offset + bytes_written),
          r |-> bytes_written]
    ELSE DataGot(get_block_for_offset(m, inode, offset + bytes_written, TRUE),
                 inode_num, len, offset, bytes_written, seed)

\* write after the zero fill: inode.size = offset, in memory only
WriteFilled(f, inode_num, len, offset, seed) ==
  IF f.exit THEN [m |-> f.m, r |-> f.r]
  ELSE DataLoop(f.m, inode_num, [f.inode EXCEPT !.size = offset], len, offset,
                0, seed)

\* write after read_inode, without the check of inode.valid
WriteInodeAnyway(ri, inode_num, len, offset, seed) ==
  IF ri.r # 0 THEN [m |-> ri.m, r |-> ri.r]
  ELSE IF offset > ri.inode.size
    THEN WriteFilled(SparseFill(ri.m, inode_num, ri.inode, ri.inode.size, offset),
                     inode_num, len, offset, seed)
  ELSE DataLoop(ri.m, inode_num, ri.inode, len, offset, 0, seed)

\* write after read_inode
WriteInode(ri, inode_num, len, offset, seed) ==
  IF ri.r # 0 THEN [m |-> ri.m, r |-> ri.r]
  ELSE IF ri.inode.valid = 0 THEN [m |-> ri.m, r |-> E_INVALID_INODE]
  ELSE IF offset > ri.inode.size
    THEN WriteFilled(SparseFill(ri.m, inode_num, ri.inode, ri.inode.size, offset),
                     inode_num, len, offset, seed)
  ELSE DataLoop(ri.m, inode_num, ri.inode, len, offset, 0, seed)

write(m, inode_num, seed, len, offset) ==
  IF ~m.disk_mounted THEN [m |-> m, r |-> E_DISK_NOT_MOUNTED]
  ELSE IF inode_num < 0 \/ inode_num >= NumInodes(m)
    THEN [m |-> m, r |-> E_INVALID_INODE]
  ELSE WriteInode(read_inode(m, inode_num), inode_num, len, offset, seed)

(***************************************************************************)
(* State: the device contents, the globals of fs.c, and the caller.        *)
(***************************************************************************)
VARIABLES
  image,          \* the device: sector number -> BLOCK_SIZE bytes
  disk_on,        \* the global DISK handle is open
  disk_mounted,
  superblock,
  block_bitmap,   \* <<>> is NULL
  mounted_disk,   \* "" is NULL
  oob,            \* a store past the end of block_bitmap has happened
  last,           \* the last public call: its arguments and what it returned
  budget,         \* public calls the caller still makes
  shapes          \* the <<offset, len>> pairs the caller reads and writes with

vars == <<image, disk_on, disk_mounted, superblock, block_bitmap, mounted_disk,
          oob, last, budget, shapes>>

Machine(plan) ==
  [image |-> image, disk_on |-> disk_on, disk_mounted |-> disk_mounted,
   superblock |-> superblock, block_bitmap |-> block_bitmap,
   mounted_disk |-> mounted_disk, oob |-> oob, n |-> 0, plan |-> plan,
   lost |-> FALSE]

\* the machine of the state an action leads to
MachineNext ==
  [image |-> image', disk_on |-> disk_on', disk_mounted |-> disk_mounted',
   superblock |-> superblock', block_bitmap |-> block_bitmap',
   mounted_disk |-> mounted_disk', oob |-> oob', n |-> 0, plan |-> NoFault,
   lost |-> FALSE]

Commit(m) ==
  /\ image' = m.image
  /\ disk_on' = m.disk_on
  /\ disk_mounted' = m.disk_mounted
  /\ superblock' = m.superblock
  /\ block_bitmap' = m.block_bitmap
  /\ mounted_disk' = m.mounted_disk
  /\ oob' = m.oob

\* the number of the device call that failed first in a call that ended in
\* machine m, 0 when none failed
Failed(plan, m) == IF plan.at # 0 /\ m.n >= plan.at THEN plan.at ELSE 0

\* the device calls that failed in a call that ended in machine m
Failures(plan, m) ==
  IF plan.at = 0 \/ m.n < plan.at THEN 0
  ELSE IF plan.sticky THEN m.n - plan.at + 1
  ELSE 1

\* the device calls made (m.n) and failed in a call that ended in machine m,
\* and whether a write_inode failed unnoticed
Device(plan, m) ==
  [fault |-> Failed(plan, m), calls |-> m.n, failures |-> Failures(plan, m),
   lost |-> m.lost]

Call(op, inode_num, offset, len, seed, device, res, data) ==
  [op |-> op, inode |-> inode_num, offset |-> offset, len |-> len, seed |-> seed,
   fault |-> device.fault, calls |-> device.calls, failures |-> device.failures,
   lost |-> device.lost,
   r |-> res, data |-> data]

\* a device image that was never formatted
RawImage(sectors) == [b \in 0..(sectors - 1) |-> [k \in 0..(BLOCK_SIZE - 1) |-> 85]]

\* a device image formatted by a build whose BLOCK_SIZE is twice this one's:
\* the superblock_t of format in block 0, with that block_size, and one
\* zeroed block of inodes
ForeignImage(sectors) ==
  [RawImage(sectors) EXCEPT
     ![0] = PutBytes(ZeroBlock, 0,
                     EncodeSuperblock([magic |-> MAGIC_NUMBER,
                                       num_blocks |-> sectors,
                                       num_inode_blocks |-> 1,
                                       block_size |-> 2 * BLOCK_SIZE])),
     ![1] = ZeroBlock]

\* distinguished file offsets: the last byte of the first block, the first
\* byte of the indirect range, a byte of the double-indirect range, and the
\* first offset past the pointer tree
IndirectStart == 4 * BLOCK_SIZE
DoubleStart == (4 + POINTERS_PER_BLOCK) * BLOCK_SIZE
MaxFileSize ==
  (4 + POINTERS_PER_BLOCK + POINTERS_PER_BLOCK * POINTERS_PER_BLOCK) * BLOCK_SIZE

WriteShapes ==
  { <<0, 1>>, <<0, BLOCK_SIZE + 1>>, <<0, IndirectStart>>,
    <<BLOCK_SIZE - 1, 1>>, <<BLOCK_SIZE, 1>>, <<BLOCK_SIZE, 0>>,
    <<IndirectStart, 1>>, <<DoubleStart + BLOCK_SIZE, 1>>,
    <<MaxFileSize, 1>>, <<MaxFileSize, 0>> }

ReadShapes ==
  { <<0, 0>>, <<0, BLOCK_SIZE + 1>>, <<IndirectStart - 1, 2>>, <<IndirectStart, 1>> }

\* inode numbers the caller passes: below, inside and past the inode table
InodeArgs == {-1, 0, 1, INODES_PER_BLOCK}
\* inode counts the caller asks format for: none, one block's, two blocks'
FormatArgs == {0, 1, INODES_PER_BLOCK + 1}

Plans ==
  {NoFault} \cup [at : 1..MaxFaultAt, sticky : BOOLEAN]

BootMachine(sectors) ==
  [image |-> RawImage(sectors), disk_on |-> FALSE, disk_mounted |-> FALSE,
   superblock |-> [magic |-> [k \in 1..16 |-> 0], num_blocks |-> 0,
                   num_inode_blocks |-> 0, block_size |-> 0],
   block_bitmap |-> <<>>, mounted_disk |-> "", oob |-> FALSE,
   n |-> 0, plan |-> NoFault, lost |-> FALSE]

InitWith(m, depth, sh) ==
  /\ image = m.image
  /\ disk_on = m.disk_on
  /\ disk_mounted = m.disk_mounted
  /\ superblock = m.superblock
  /\ block_bitmap = m.block_bitmap
  /\ mounted_disk = m.mounted_disk
  /\ oob = m.oob
  /\ last = Call("start", 0, 0, 0, 0, Device(NoFault, m), 0, <<>>)
  /\ budget = depth
  /\ shapes = sh

\* The process starts with nothing mounted, on a device never formatted or
\* on one formatted elsewhere with another block size.
Init ==
  \E sectors \in {SmallSectors, NumSectors} :
    \E img \in {RawImage(sectors), ForeignImage(sectors)} :
      InitWith([BootMachine(sectors) EXCEPT !.image = img], MaxSteps, WriteShapes)

(***************************************************************************)
(* One action per public operation.                                        *)
(***************************************************************************)
\* one more public call by the caller
Spend ==
  /\ budget > 0
  /\ budget' = budget - 1
  /\ shapes' = shapes

\* the globals after the call and the record of what it returned
Done(op, inode_num, offset, len, seed, plan, res) ==
  /\ Commit(res.m)
  /\ last' = Call(op, inode_num, offset, len, seed, Device(plan, res.m), res.r, <<>>)

\* the same for read, which also fills the caller's buffer
DoneRead(inode_num, offset, len, plan, res) ==
  /\ Commit(res.m)
  /\ last' = Call("read", inode_num, offset, len, 0, Device(plan, res.m), res.r,
                  res.data)

Format(plan) ==
  /\ Spend
  /\ \E inodes \in FormatArgs :
       Done("format", inodes, 0, 0, 0, plan, format(Machine(plan), inodes))

Mount(plan) ==
  /\ Spend
  /\ Done("mount", 0, 0, 0, 0, plan, mount(Machine(plan)))

Unmount(plan) ==
  /\ Spend
  /\ Done("unmount", 0, 0, 0, 0, plan, unmount(Machine(plan)))

Create(plan) ==
  /\ Spend
  /\ Done("create", 0, 0, 0, 0, plan, create(Machine(plan)))

Delete(plan) ==
  /\ Spend
  /\ \E i \in InodeArgs :
       Done("delete", i, 0, 0, 0, plan, delete(Machine(plan), i))

Stat(plan) ==
  /\ Spend
  /\ \E i \in InodeArgs :
       Done("stat", i, 0, 0, 0, plan, stat(Machine(plan), i))

\* the <<inode, <<offset, len>>>> arguments of read and write: every shape on
\* the inode numbers of the table, one shape on the numbers outside it
Args(sh) ==
  { a \in InodeArgs \X sh :
      a[1] \in 0..(INODES_PER_BLOCK - 1) \/ a[2] = <<0, BLOCK_SIZE + 1>> }

Read(plan) ==
  /\ Spend
  /\ \E a \in Args(ReadShapes) :
       DoneRead(a[1], a[2][1], a[2][2], plan,
                read(Machine(plan), a[1], a[2][2], a[2][1]))

\* The buffer written is the one numbered by the calls left, so that two
\* writes of a run never carry the same bytes.
Write(plan) ==
  /\ Spend
  /\ \E a \in Args(shapes) :
       Done("write", a[1], a[2][1], a[2][2], budget, plan,
            write(Machine(plan), a[1], budget, a[2][2], a[2][1]))

Next ==
  \/ Format(NoFault)
  \/ Mount(NoFault)
  \/ Unmount(NoFault)
  \/ Create(NoFault)
  \/ Delete(NoFault)
  \/ Stat(NoFault)
  \/ Read(NoFault)
  \/ Write(NoFault)

NextF ==
  \E plan \in Plans :
    \/ Format(plan)
    \/ Mount(plan)
    \/ Unmount(plan)
    \/ Create(plan)
    \/ Delete(plan)
    \/ Stat(plan)
    \/ Read(plan)
    \/ Write(plan)

\* the volume that format and then mount are written to establish: mount's
\* own steps around its scan of the inodes, which finds no valid inode on a
\* volume just formatted
FreshVolume(sectors, inodes) ==
  MountFinish(MountOpen(format(BootMachine(sectors), inodes).m)).m

InitVol ==
  \E sectors \in {SmallSectors, NumSectors} :
    InitWith(FreshVolume(sectors, 1), MaxSteps, WriteShapes)

\* the writes made on a volume in use: into the first block, into the second,
\* across both, and into the first block behind the indirect block
AgedShapes ==
  { <<0, 1>>, <<BLOCK_SIZE, 1>>, <<0, BLOCK_SIZE + 1>>, <<IndirectStart, 1>> }

\* a volume in use: one file, holding one byte, already exists at mount
InitAged ==
  \E sectors \in {SmallSectors, NumSectors} :
    InitWith(write(create(FreshVolume(sectors, 1)).m, 0, MaxSteps + 1, 1, 0).m,
             MaxSteps, AgedShapes)

\* the program from its start, on a device that never fails
Spec == Init /\ [][Next]_vars

\* the calls on a mounted volume, on a device that never fails
SpecVol == InitVol /\ [][Next]_vars

\* the calls on a mounted volume, on a device that may fail
SpecVolF == InitVol /\ [][NextF]_vars

\* the calls on a volume in use, on a device that never fails
SpecAged == InitAged /\ [][Next]_vars

(***************************************************************************)
(* What a state holds: the inodes stored on the device, their pointer      *)
(* trees and the blocks the bitmap marks used.                             *)
(***************************************************************************)
\* the globals and the device now, on a device that does not fail
Here == Machine(NoFault)

\* the inode_t stored in slot i of the inode table
StoredInode(m, i) ==
  DecodeInode(m.image[1 + (i \div INODES_PER_BLOCK)],
              (i % INODES_PER_BLOCK) * INODE_SIZE)

\* the allocated slots of the inode table
ValidSlots(m) == {i \in 0..(NumInodes(m) - 1) : StoredInode(m, i).valid # 0}

NonZero(pointers) == SelectSeq(pointers, LAMBDA p : p # 0)

\* the nonzero entries of pointer block b; 0 is no block
Entries(m, b) ==
  IF b = 0 \/ b \notin DOMAIN m.image THEN <<>>
  ELSE NonZero([k \in 1..POINTERS_PER_BLOCK |-> Pointer(m.image[b], k - 1)])

RECURSIVE Leaves(_, _)
\* the nonzero entries of each of the pointer blocks bs
Leaves(m, bs) ==
  IF bs = <<>> THEN <<>> ELSE Entries(m, Head(bs)) \o Leaves(m, Tail(bs))

\* every pointer of an inode's tree, in order, each as often as it occurs
Tree(m, inode) ==
  NonZero(<<inode.direct_blocks[0], inode.direct_blocks[1],
            inode.direct_blocks[2], inode.direct_blocks[3],
            inode.indirect_block>>)
    \o Entries(m, inode.indirect_block)
    \o NonZero(<<inode.double_indirect_block>>)
    \o Entries(m, inode.double_indirect_block)
    \o Leaves(m, Entries(m, inode.double_indirect_block))

RECURSIVE PointersFrom(_, _)
\* the trees of the valid inodes i.., one after the other
PointersFrom(m, i) ==
  IF i >= NumInodes(m) THEN <<>>
  ELSE (IF StoredInode(m, i).valid # 0 THEN Tree(m, StoredInode(m, i)) ELSE <<>>)
         \o PointersFrom(m, i + 1)

Range(s) == {s[k] : k \in DOMAIN s}

\* the blocks block_bitmap marks used
UsedBlocks(m) == {b \in DOMAIN m.block_bitmap : m.block_bitmap[b] # 0}

\* (I1) every pointer of a valid inode's tree is a block of the data region
I1(m) ==
  \A p \in Range(PointersFrom(m, 0)) :
    p > m.superblock.num_inode_blocks /\ p < m.superblock.num_blocks

\* (I2) no pointer occurs twice in the trees of the valid inodes
I2(m) == Cardinality(Range(PointersFrom(m, 0))) = Len(PointersFrom(m, 0))

\* (I3) a valid inode's size is at most its reachable blocks times BLOCK_SIZE
I3(m) ==
  \A i \in ValidSlots(m) :
    StoredInode(m, i).size <= Len(Tree(m, StoredInode(m, i))) * BLOCK_SIZE

\* (I4) the bitmap's used set is {0..num_inode_blocks} and the reachable pointers
I4(m) ==
  UsedBlocks(m) = (0..m.superblock.num_inode_blocks) \cup Range(PointersFrom(m, 0))

\* I1 to I4; (I5), a slot not in use is stored as 0, is how Tree reads a slot
Consistent(m) == I1(m) /\ I2(m) /\ I3(m) /\ I4(m)

\* blocks that creating a file of `size` bytes from nothing allocates: its
\* data blocks and the pointer blocks above them
BlocksFor(size) ==
  LET data == (size + BLOCK_SIZE - 1) \div BLOCK_SIZE
  IN  data
      + (IF data > 4 THEN 1 ELSE 0)
      + (IF data > 4 + POINTERS_PER_BLOCK
           THEN 1 + ((data - 4 - 1) \div POINTERS_PER_BLOCK) ELSE 0)

\* slot i holds an inode as create leaves it
NewInode(m, i) ==
  /\ i \in ValidSlots(m)
  /\ StoredInode(m, i).size = 0
  /\ Tree(m, StoredInode(m, i)) = <<>>

\* the volume as format and mount leave it, but for the one inode i
FreshBut(m, i) ==
  /\ m.disk_mounted
  /\ ValidSlots(m) = {i}
  /\ NewInode(m, i)
  /\ UsedBlocks(m) = 0..m.superblock.num_inode_blocks

(***************************************************************************)
(* Properties                                                              *)
(***************************************************************************)
\* the machine after the call of this step
There == MachineNext

\* the largest byte string of the round trip: four blocks
SmallFile == 4 * BLOCK_SIZE

\* C1: round trip.  On a volume just formatted and mounted where create has
\* returned inode i, a write of a buffer B of at most four blocks at offset 0,
\* with enough free data blocks, returns |B|; stat(i) is then |B| and
\* read(i, buf, |B|, 0) returns |B| and fills buf with B.
RoundTrip ==
  [][(/\ last.op = "create" /\ last.r >= 0
      /\ FreshBut(Here, last.r)
      /\ last'.op = "write" /\ last'.inode = last.r
      /\ last'.offset = 0 /\ last'.len <= SmallFile
      /\ Cardinality(FreeBlocks(Here)) >= BlocksFor(last'.len))
     => (/\ last'.r = last'.len
         /\ stat(There, last'.inode).r = last'.len
         /\ read(There, last'.inode, last'.len, 0).r = last'.len
         /\ read(There, last'.inode, last'.len, 0).data
              = DataBytes(last'.seed, 0, last'.len))]_vars

\* create and then a write of four blocks at offset 0 have returned, and the
\* file reads back as the buffer written
RoundTripDone ==
  /\ budget = MaxSteps - 2
  /\ last.op = "write" /\ last.offset = 0 /\ last.len = SmallFile
  /\ last.r = SmallFile
  /\ read(Here, last.inode, SmallFile, 0).data = DataBytes(last.seed, 0, SmallFile)

\* C2: after a successful format, mount on the device not yet mounted returns
\* 0 and sets disk_mounted, and stat and create no longer return
\* E_DISK_NOT_MOUNTED.
MountAfterFormat ==
  [][(/\ last.op = "format" /\ last.r = 0
      /\ ~disk_mounted
      /\ last'.op = "mount")
     => (/\ last'.r = 0
         /\ disk_mounted'
         /\ stat(There, 0).r # E_DISK_NOT_MOUNTED
         /\ create(There).r # E_DISK_NOT_MOUNTED)]_vars

NoAliasing == disk_mounted => I2(Here)

\* two valid inodes that both own blocks
TwoFilesWithBlocks ==
  /\ disk_mounted
  /\ Cardinality(ValidSlots(Here)) = 2
  /\ \A i \in ValidSlots(Here) : Tree(Here, StoredInode(Here, i)) # <<>>

SparseOffsets ==
  {0, BLOCK_SIZE - 1, BLOCK_SIZE, IndirectStart, DoubleStart + BLOCK_SIZE}

\* C9: sparse fill.  On a newly created inode i, with free blocks for the
\* file, a write of 1 byte at offset K returns 1, stat(i) is K + 1, a read of
\* the first K bytes returns K zero bytes and byte K is the byte written.
SparseWrite ==
  [][(/\ disk_mounted
      /\ last'.op = "write" /\ NewInode(Here, last'.inode)
      /\ last'.len = 1 /\ last'.offset \in SparseOffsets
      /\ Cardinality(FreeBlocks(Here)) >= BlocksFor(last'.offset + 1))
     => (/\ last'.r = 1
         /\ stat(There, last'.inode).r = last'.offset + 1
         /\ read(There, last'.inode, last'.offset, 0).r = last'.offset
         /\ read(There, last'.inode, last'.offset, 0).data = Zeros(last'.offset)
         /\ read(There, last'.inode, 1, last'.offset).data
              = <<Data(last'.seed, 0)>>)]_vars

\* one byte written in the double-indirect range of a new inode, behind a
\* zero fill that reads back as zeros
SparseWriteDone ==
  /\ budget = MaxSteps - 2
  /\ last.op = "write" /\ last.len = 1 /\ last.offset = DoubleStart + BLOCK_SIZE
  /\ last.r = 1
  /\ stat(Here, last.inode).r = last.offset + 1
  /\ read(Here, last.inode, last.offset, 0).data = Zeros(last.offset)

OutOfSpace ==
  [][(/\ disk_mounted
      /\ last'.op = "write" /\ last'.inode \in ValidSlots(Here)
      /\ last'.len > 0 /\ last'.offset < MaxFileSize)
     => (/\ last'.r # last'.len
           => /\ FreeBlocks(There) = {}
              /\ IF last'.r > 0
                   THEN /\ last'.r < last'.len
                        /\ read(There, last'.inode, last'.r, last'.offset).data
                             = DataBytes(last'.seed, 0, last'.r)
                        /\ get_block_for_offset(There,
                                                StoredInode(There, last'.inode),
                                                last'.offset + last'.r, FALSE).r = 0
                   ELSE last'.r = E_OUT_OF_SPACE
         /\ (/\ NewInode(Here, last'.inode)
             /\ Cardinality(FreeBlocks(Here)) = 1
             /\ last'.offset = 0 /\ last'.len = BLOCK_SIZE + 1)
           => /\ last'.r = BLOCK_SIZE
              /\ read(There, last'.inode, BLOCK_SIZE + 1, 0).r = BLOCK_SIZE
              /\ read(There, last'.inode, BLOCK_SIZE + 1, 0).data
                   = DataBytes(last'.seed, 0, BLOCK_SIZE))]_vars

\* BLOCK_SIZE + 1 bytes written to a new file of a volume with one free
\* block: BLOCK_SIZE of them were written, and no block is free
OutOfSpaceDone ==
  /\ disk_mounted /\ budget = MaxSteps - 2
  /\ last.op = "write" /\ last.offset = 0 /\ last.len = BLOCK_SIZE + 1
  /\ last.r = BLOCK_SIZE
  /\ FreeBlocks(Here) = {}
  /\ stat(Here, last.inode).r = BLOCK_SIZE

\* the step is a write of len > 0 bytes to a valid inode at an offset inside
\* the pointer tree
WriteStep ==
  /\ disk_mounted
  /\ last'.op = "write" /\ last'.inode \in ValidSlots(Here)
  /\ last'.len > 0 /\ last'.offset < MaxFileSize

\* the size stored for the inode written is the larger of the size stored
\* before and the end of the bytes written
SizeKept ==
  StoredInode(There, last'.inode).size
    = Max(StoredInode(Here, last'.inode).size, last'.offset + last'.r)

PartialWrite ==
  [][(WriteStep /\ Consistent(Here))
     => /\ last'.r # 0
        /\ (last'.r > 0 /\ last'.r < last'.len /\ ~last'.lost)
             => /\ SizeKept
                /\ read(There, last'.inode, last'.r, last'.offset).data
                     = DataBytes(last'.seed, 0, last'.r)
        /\ last'.r < 0
             => read(There, last'.inode, 1, last'.offset).data
                  = read(Here, last'.inode, 1, last'.offset).data]_vars

\* a write stopped by a failed device call after its first block: it
\* returned BLOCK_SIZE of its BLOCK_SIZE + 1 bytes and the size is stored
PartialWriteDone ==
  /\ disk_mounted
  /\ last.op = "write" /\ last.fault # 0 /\ ~last.lost
  /\ last.offset = 0 /\ last.len = BLOCK_SIZE + 1 /\ last.r = BLOCK_SIZE
  /\ stat(Here, last.inode).r = BLOCK_SIZE

\* the slots of the inode table that hold no inode
FreeSlots(m) == (0..(NumInodes(m) - 1)) \ ValidSlots(m)

Lowest(S) == CHOOSE x \in S : \A y \in S : x <= y

\* C13: create, on a device that does not fail, returns the lowest free slot
\* of [0, num_inode_blocks * INODES_PER_BLOCK) and has stored there valid = 1,
\* size = 0 and all pointers 0, the other inodes and the bitmap as they were;
\* it returns E_OUT_OF_INODES, changing nothing, exactly when every slot is
\* valid.  A create that follows the delete of the slot i that the create
\* before had returned gives i again.
Creation ==
  [][(disk_mounted /\ last'.op = "create")
     => /\ IF FreeSlots(Here) # {}
             THEN /\ last'.r = Lowest(FreeSlots(Here))
                  /\ StoredInode(There, last'.r).valid = 1
                  /\ NewInode(There, last'.r)
                  /\ ValidSlots(There) = ValidSlots(Here) \cup {last'.r}
                  /\ \A i \in ValidSlots(Here) :
                       StoredInode(There, i) = StoredInode(Here, i)
                  /\ block_bitmap' = block_bitmap
             ELSE /\ last'.r = E_OUT_OF_INODES
                  /\ UNCHANGED <<image, block_bitmap, disk_mounted, superblock>>
        /\ (/\ last.op = "delete" /\ last.r = 0
            /\ \A k \in 0..(last.inode - 1) : k \in ValidSlots(Here))
             => last'.r = last.inode]_vars

\* create, write, delete, create: the second create returned slot 0 again,
\* new, and the block the file had is free
CreationDone ==
  /\ disk_mounted /\ budget = MaxSteps - 4
  /\ last.op = "create" /\ last.r = 0
  /\ StoredInode(Here, 0).valid = 1 /\ NewInode(Here, 0)
  /\ \E b \in FreeBlocks(Here) : image[b] # RawImage(b + 1)[b]

Untouched ==
  /\ last'.calls = 0
  /\ UNCHANGED <<image, disk_on, disk_mounted, superblock, block_bitmap,
                 mounted_disk, oob>>

\* C15: lifecycle refusals.  mount and format while a volume is mounted
\* return E_DISK_ALREADY_MOUNTED, unmount while none is mounted returns
\* E_DISK_NOT_MOUNTED; each leaves the mounted flag, the bitmap and the
\* device contents unchanged.
LifecycleRefusals ==
  [][/\ (disk_mounted /\ last'.op \in {"mount", "format"})
          => (last'.r = E_DISK_ALREADY_MOUNTED /\ Untouched)
     /\ (~disk_mounted /\ last'.op = "unmount")
          => (last'.r = E_DISK_NOT_MOUNTED /\ Untouched)]_vars

\* a mount refused on the mounted volume
MountRefused ==
  /\ disk_mounted /\ block_bitmap # <<>>
  /\ last.op = "mount" /\ last.r = E_DISK_ALREADY_MOUNTED

\* C16: not mounted.  While no volume is mounted (after unmount, after a
\* mount that failed) create, delete, stat, read and write return
\* E_DISK_NOT_MOUNTED whatever the inode number and the offset, make no device
\* call and change nothing.
NotMounted ==
  [][(~disk_mounted
      /\ last'.op \in {"create", "delete", "stat", "read", "write"})
     => (last'.r = E_DISK_NOT_MOUNTED /\ Untouched)]_vars

\* a write with an inode number outside the table, refused as not mounted
\* two calls after the volume was unmounted
NotMountedDone ==
  /\ ~disk_mounted /\ budget = MaxSteps - 3
  /\ last.op = "write" /\ last.inode = -1
  /\ last.r = E_DISK_NOT_MOUNTED
  /\ block_bitmap = <<>>

\* C17: invalid inode.  On a mounted volume and a device that does not fail,
\* delete, stat, read and write of an inode number below 0, at or past
\* num_inode_blocks * INODES_PER_BLOCK, or of a slot whose valid is 0, return
\* E_INVALID_INODE and change neither the device contents nor the bitmap.
InvalidInode ==
  [][(/\ disk_mounted
      /\ last'.op \in {"delete", "stat", "read", "write"}
      /\ last'.inode \notin ValidSlots(Here))
     => (/\ last'.r = E_INVALID_INODE
         /\ UNCHANGED <<image, block_bitmap, disk_mounted, superblock>>)]_vars

\* a write to a slot of the table that holds no inode, refused, while the
\* other slot holds a file
InvalidInodeDone ==
  /\ disk_mounted
  /\ last.op = "write" /\ last.len > 0
  /\ last.inode \in FreeSlots(Here)
  /\ last.r = E_INVALID_INODE
  /\ \E i \in ValidSlots(Here) : StoredInode(Here, i).size > 0

\* the blocks that the tree of the inode stored in slot i reaches
Reached(m, i) == Range(Tree(m, StoredInode(m, i)))

\* C18: delete of a valid inode, on a device that does not fail, returns 0,
\* has freed in the bitmap every block the inode's tree reached (direct,
\* indirect and its entries, double-indirect, its indirect blocks and their
\* entries) and no other, and has stored the record with valid = 0, size = 0
\* and all pointers 0, the other inodes as they were; stat of the inode then
\* returns E_INVALID_INODE.
Deletion ==
  [][(/\ disk_mounted
      /\ last'.op = "delete" /\ last'.inode \in ValidSlots(Here))
     => (/\ last'.r = 0
         /\ DOMAIN block_bitmap' = DOMAIN block_bitmap
         /\ \A b \in DOMAIN block_bitmap :
              block_bitmap'[b] = IF b \in Reached(Here, last'.inode)
                                   THEN 0 ELSE block_bitmap[b]
         /\ StoredInode(There, last'.inode).valid = 0
         /\ StoredInode(There, last'.inode).size = 0
         /\ Reached(There, last'.inode) = {}
         /\ \A i \in ValidSlots(Here) \ {last'.inode} :
              StoredInode(There, i) = StoredInode(Here, i)
         /\ stat(There, last'.inode).r = E_INVALID_INODE)]_vars

\* create, write, delete of a file that reached into the double-indirect
\* range: every block it had is free again
DeletionDone ==
  /\ disk_mounted /\ budget = MaxSteps - 3
  /\ last.op = "delete" /\ last.r = 0
  /\ ValidSlots(Here) = {}
  /\ UsedBlocks(Here) = 0..superblock.num_inode_blocks
  /\ Cardinality({b \in FreeBlocks(Here) : image[b] # RawImage(b + 1)[b]})
       >= BlocksFor(DoubleStart + BLOCK_SIZE + 1)

\* the block that holds data block k of a file, by the layout of the pointer
\* tree: 4 direct pointers, the entries of the indirect block, the entries of
\* the indirect blocks of the double-indirect block; 0 is no block
FileBlock(m, inode, k) ==
  IF k < 4 THEN inode.direct_blocks[k]
  ELSE IF k < 4 + POINTERS_PER_BLOCK
    THEN IF inode.indirect_block = 0 THEN 0
         ELSE Pointer(m.image[inode.indirect_block], k - 4)
  ELSE IF inode.double_indirect_block = 0 THEN 0
  ELSE LET j   == k - 4 - POINTERS_PER_BLOCK
           ind == Pointer(m.image[inode.double_indirect_block],
                          j \div POINTERS_PER_BLOCK)
       IN  IF ind = 0 THEN 0
           ELSE Pointer(m.image[ind], j % POINTERS_PER_BLOCK)

\* byte pos of the file stored in slot i; -1 where the file has no block
FileByte(m, i, pos) ==
  LET b == FileBlock(m, StoredInode(m, i), pos \div BLOCK_SIZE)
  IN  IF b = 0 THEN -1 ELSE m.image[b][pos % BLOCK_SIZE]

\* min(len, max(0, size - offset)), and 0 for a len below 0
ReadCount(size, len, offset) == Max(0, Min(len, Max(0, size - offset)))

DataBlocks(size) == (size + BLOCK_SIZE - 1) \div BLOCK_SIZE

\* every data block below the size of every valid inode has a nonzero pointer
NoHoles(m) ==
  \A i \in ValidSlots(m) :
    \A k \in 0..(DataBlocks(StoredInode(m, i).size) - 1) :
      FileBlock(m, StoredInode(m, i), k) # 0

InDataRegion(m, b) ==
  b >= 1 + m.superblock.num_inode_blocks /\ b < m.superblock.num_blocks

MagicRejected ==
  [][(/\ ~disk_mounted /\ last'.op = "mount"
      /\ GetBytes(image[0], 0, 16) # MAGIC_NUMBER)
     => (/\ last'.r = E_CORRUPT_DISK
         /\ ~disk_mounted' /\ ~disk_on'
         /\ block_bitmap' = <<>> /\ mounted_disk' = ""
         /\ image' = image)]_vars

\* a mount refused on a device that was never formatted
MagicRejectedDone ==
  /\ last.op = "mount" /\ last.r = E_CORRUPT_DISK
  /\ ~disk_mounted /\ ~disk_on
  /\ GetBytes(image[0], 0, 16) # MAGIC_NUMBER

\* C24: block size rejection.  On a device that does not fail, mount of a
\* device whose block 0 carries MAGIC_NUMBER and a block_size field other
\* than BLOCK_SIZE returns E_CORRUPT_DISK and leaves the volume unmounted.
BlockSizeRejected ==
  [][(/\ ~disk_mounted /\ last'.op = "mount"
      /\ DecodeSuperblock(image[0]).magic = MAGIC_NUMBER
      /\ DecodeSuperblock(image[0]).block_size # BLOCK_SIZE)
     => (last'.r = E_CORRUPT_DISK /\ ~disk_mounted')]_vars

\* C25: unmount of a mounted volume, whether its vdisk_sync fails or not,
\* ends with the volume unmounted, the bitmap and the name released and the
\* device closed; it returns 0 when the sync succeeded and the sync's code
\* when it failed.
UnmountReleases ==
  [][(disk_mounted /\ last'.op = "unmount")
     => (/\ ~disk_mounted' /\ ~disk_on'
         /\ block_bitmap' = <<>> /\ mounted_disk' = ""
         /\ image' = image
         /\ last'.calls = 1
         /\ last'.r = IF last'.fault = 0 THEN 0 ELSE E_VDISK)]_vars

\* an unmount whose sync failed: the code of the sync is returned and the
\* volume is unmounted
UnmountReleasesDone ==
  /\ last.op = "unmount" /\ last.fault # 0 /\ last.r = E_VDISK
  /\ ~disk_mounted /\ ~disk_on
  /\ block_bitmap = <<>> /\ mounted_disk = ""

\* device open, bitmap allocated, name stored, flag set
FullyMounted ==
  disk_mounted /\ disk_on /\ block_bitmap # <<>> /\ mounted_disk # ""

\* flag clear, bitmap and name released, device closed
FullyUnmounted ==
  ~disk_mounted /\ ~disk_on /\ block_bitmap = <<>> /\ mounted_disk = ""

InodeBlocksWanted(n) == (Max(n, 1) + INODES_PER_BLOCK - 1) \div INODES_PER_BLOCK

\* the step has left in block 0 the superblock of a volume of nib inode
\* blocks, zeros in blocks 1..nib, the other blocks as they were
Formatted(nib) ==
  /\ GetBytes(image'[0], 0, 16) = MAGIC_NUMBER
  /\ GetU32(image'[0], 16) = Cardinality(DOMAIN image)
  /\ GetU32(image'[0], 20) = nib
  /\ GetU32(image'[0], 24) = BLOCK_SIZE
  /\ GetBytes(image'[0], 28, BLOCK_SIZE - 28) = Zeros(BLOCK_SIZE - 28)
  /\ \A b \in 1..nib : image'[b] = ZeroBlock
  /\ \A b \in DOMAIN image : b > nib => image'[b] = image[b]
  /\ \A i \in 0..(nib * INODES_PER_BLOCK - 1) : StoredInode(There, i).valid = 0

\* C27: format(path, n), on a device that does not fail, uses
\* num_inode_blocks = ceil(max(n, 1) / INODES_PER_BLOCK).  Unless
\* num_inode_blocks + 1 < num_blocks it returns E_OUT_OF_SPACE and writes no
\* block.  Otherwise it returns 0, block 0 holds the superblock (magic,
\* num_blocks = the sectors of the device, num_inode_blocks, BLOCK_SIZE),
\* blocks 1..num_inode_blocks are zero, so every inode slot is free.  The
\* volume stays unmounted.
FormatLayout ==
  [][(~disk_mounted /\ last'.op = "format")
     => (/\ FullyUnmounted'
         /\ IF InodeBlocksWanted(last'.inode) + 1 < Cardinality(DOMAIN image)
              THEN last'.r = 0 /\ Formatted(InodeBlocksWanted(last'.inode))
              ELSE last'.r = E_OUT_OF_SPACE /\ image' = image)]_vars

\* a device formatted for two blocks of inodes
FormatLayoutDone ==
  /\ last.op = "format" /\ last.r = 0 /\ last.inode = INODES_PER_BLOCK + 1
  /\ ~disk_mounted
  /\ DecodeSuperblock(image[0]).num_inode_blocks = 2
  /\ image[1] = ZeroBlock /\ image[2] = ZeroBlock

(***************************************************************************)
(* C28: on-disk inode format.  Inode i lives at byte (i % INODES_PER_BLOCK)*)
(* * INODE_SIZE of block 1 + i / INODES_PER_BLOCK, and its 32 bytes are    *)
(* valid at [0], size at [1..5), direct_blocks at [5..21), indirect_block  *)
(* at [21..25), double_indirect_block at [25..29) and zero at [29..32),    *)
(* little-endian, for the inode that read_inode returns.                   *)
(***************************************************************************)
PackedInode(inode) ==
  <<inode.valid>> \o U32Bytes(inode.size)
    \o U32Bytes(inode.direct_blocks[0]) \o U32Bytes(inode.direct_blocks[1])
    \o U32Bytes(inode.direct_blocks[2]) \o U32Bytes(inode.direct_blocks[3])
    \o U32Bytes(inode.indirect_block) \o U32Bytes(inode.double_indirect_block)
    \o <<0, 0, 0>>

SlotBytes(m, i) ==
  GetBytes(m.image[1 + (i \div INODES_PER_BLOCK)],
           (i % INODES_PER_BLOCK) * INODE_SIZE, INODE_SIZE)

ProbeOffsets ==
  { -1, 0, BLOCK_SIZE - 1, BLOCK_SIZE, IndirectStart - 1, IndirectStart,
    IndirectStart + BLOCK_SIZE, DoubleStart - 1, DoubleStart,
    DoubleStart + BLOCK_SIZE, MaxFileSize - 1, MaxFileSize,
    MaxFileSize + BLOCK_SIZE }

Resolved(m, inode, offset) ==
  IF offset < 0 \/ offset \div BLOCK_SIZE >= MaxFileSize \div BLOCK_SIZE
    THEN E_INVALID_OFFSET
    ELSE FileBlock(m, inode, offset \div BLOCK_SIZE)

LooksUp(m, inode, offset, allocate) ==
  LET g == get_block_for_offset(m, inode, offset, allocate)
  IN  /\ g.r = Resolved(m, inode, offset)
      /\ g.inode = inode
      /\ g.m.image = m.image
      /\ g.m.block_bitmap = m.block_bitmap
      /\ g.m.superblock = m.superblock

PointerTree ==
  /\ [](disk_mounted =>
          \A i \in ValidSlots(Here) : \A o \in ProbeOffsets :
            /\ LooksUp(Here, StoredInode(Here, i), o, FALSE)
            /\ Resolved(Here, StoredInode(Here, i), o) = E_INVALID_OFFSET
                 => LooksUp(Here, StoredInode(Here, i), o, TRUE))
  /\ [][(disk_mounted /\ last'.op = "write" /\ last'.r > 0)
          => FileBlock(Here', StoredInode(Here', last'.inode),
                       last'.offset \div BLOCK_SIZE) # 0]_vars

\* a file whose lookups find a block in the direct, the indirect and the
\* double-indirect range, and a hole past its end
PointerTreeDone ==
  /\ disk_mounted
  /\ \E i \in ValidSlots(Here) :
       /\ get_block_for_offset(Here, StoredInode(Here, i), 0, FALSE).r > 0
       /\ get_block_for_offset(Here, StoredInode(Here, i),
                               IndirectStart, FALSE).r > 0
       /\ get_block_for_offset(Here, StoredInode(Here, i),
                               DoubleStart, FALSE).r > 0
       /\ get_block_for_offset(Here, StoredInode(Here, i),
                               MaxFileSize - 1, FALSE).r = 0

(***************************************************************************)
(* C30: first-available allocation.  On a mounted volume find_free_block   *)
(* returns the lowest block of [1 + num_inode_blocks, num_blocks) that the *)
(* bitmap has free and marks that block and no other, or returns           *)
(* E_OUT_OF_SPACE and changes nothing when the range has no free block.    *)
(* The blocks a write takes are the lowest ones that were free before it,  *)
(* those that a delete gave back included.                                 *)
(***************************************************************************)
FreeData(m) ==
  {b \in DOMAIN m.block_bitmap : InDataRegion(m, b) /\ m.block_bitmap[b] = 0}

Allocates(m, f) ==
  IF FreeData(m) = {} THEN f.r = E_OUT_OF_SPACE /\ f.m = m
  ELSE /\ f.r = Lowest(FreeData(m))
       /\ f.m.block_bitmap = [m.block_bitmap EXCEPT ![f.r] = 1]
       /\ f.m.image = m.image /\ f.m.superblock = m.superblock

FirstAvailable ==
  /\ [](disk_mounted => Allocates(Here, find_free_block(Here)))
  /\ [][(disk_mounted /\ last'.op = "write")
          => /\ UsedBlocks(Here) \subseteq UsedBlocks(Here')
             /\ \A b \in UsedBlocks(Here') \ UsedBlocks(Here) :
                  /\ b \in FreeData(Here)
                  /\ \A c \in FreeData(Here) : c < b => c \in UsedBlocks(Here')]_vars

\* a write has taken, for the second block of its file, a block below the
\* file's first one: the block that the delete of the other file gave back
FirstAvailableDone ==
  /\ disk_mounted /\ last.op = "write" /\ last.r > 0
  /\ last.inode \in ValidSlots(Here)
  /\ StoredInode(Here, last.inode).direct_blocks[1] # 0
  /\ StoredInode(Here, last.inode).direct_blocks[1]
       < StoredInode(Here, last.inode).direct_blocks[0]

(***************************************************************************)
(* C31: a device failure during an allocating lookup.  When                *)
(* get_block_for_offset(allocate = true) returns the device's error, the   *)
(* block whose zero-fill or whose parent's write-back failed is free again *)
(* in the bitmap: the blocks the call has left marked are those that the   *)
(* caller's inode or a pointer block written by the call refers to, and    *)
(* no block that was in use has been freed.                                *)
(***************************************************************************)
\* the device calls of one lookup: at most seven, the double-indirect range
\* of an inode that has no double-indirect block yet
AllocFaults == [at : 1..7, sticky : BOOLEAN]

AllocOffsets ==
  { 0, BLOCK_SIZE, IndirectStart, IndirectStart + BLOCK_SIZE, DoubleStart,
    DoubleStart + BLOCK_SIZE, DoubleStart + POINTERS_PER_BLOCK * BLOCK_SIZE }

NoneLeft(m, g) ==
  g.r = E_VDISK
    => /\ UsedBlocks(m) \subseteq UsedBlocks(g.m)
       /\ UsedBlocks(g.m) \ UsedBlocks(m) \subseteq Range(Tree(g.m, g.inode))

AllocationUndone ==
  disk_mounted =>
    \A i \in ValidSlots(Here) : \A o \in AllocOffsets : \A plan \in AllocFaults :
      NoneLeft(Here, get_block_for_offset(Machine(plan), StoredInode(Here, i),
                                          o, TRUE))

\* the seventh device call, the write-back of the new indirect block with its
\* first leaf, fails: the leaf is free, the two pointer blocks stay
AllocationUndoneDone ==
  /\ disk_mounted
  /\ \E i \in ValidSlots(Here) :
       LET g == get_block_for_offset(Machine([at |-> 7, sticky |-> FALSE]),
                                     StoredInode(Here, i), DoubleStart, TRUE)
       IN  /\ StoredInode(Here, i).double_indirect_block = 0
           /\ g.r = E_VDISK /\ g.m.n = 7
           /\ Cardinality(UsedBlocks(g.m) \ UsedBlocks(Here)) = 2
           /\ g.inode.double_indirect_block \in UsedBlocks(g.m)

(***************************************************************************)
(* C32: allocation ordering.  A block that get_block_for_offset allocates  *)
(* is zero on the device before its number is in the caller's inode or in  *)
(* a pointer block on the device; and whatever device call a write stops   *)
(* at, a block that the inode table on the device has come to reach does   *)
(* not hold what it held while it was free.  The device state after k - 1  *)
(* calls is the one left by a device that fails from its k-th call on.     *)
(***************************************************************************)
CutAt(k) == [at |-> k, sticky |-> TRUE]

OrderShapes == { <<0, 1>>, <<IndirectStart, BLOCK_SIZE + 1>> }

\* block b holds zeros, but for the numbers of blocks in use that the call
\* has stored in it since
ZeroedBlock(m, b) ==
  \A k \in 0..(POINTERS_PER_BLOCK - 1) :
    Pointer(m.image[b], k) = 0 \/ Pointer(m.image[b], k) \in UsedBlocks(m)

\* the blocks of the tree of g.inode that were free in m have been zeroed
ZeroedFirst(m, g) ==
  \A b \in Range(Tree(g.m, g.inode)) \ UsedBlocks(m) :
    b \in DOMAIN g.m.image /\ ZeroedBlock(g.m, b)

\* the blocks the stored inodes of w reach and those of m did not have been
\* zeroed, or no longer hold what they held in m
Overwritten(m, w) ==
  \A b \in Range(PointersFrom(w, 0)) \ UsedBlocks(m) :
    b \in DOMAIN w.image /\ (ZeroedBlock(w, b) \/ w.image[b] # m.image[b])

AllocationOrder ==
  disk_mounted =>
    \A i \in ValidSlots(Here) :
      /\ \A o \in AllocOffsets : \A k \in 1..8 :
           ZeroedFirst(Here, get_block_for_offset(Machine(CutAt(k)),
                                                  StoredInode(Here, i), o, TRUE))
      /\ \A sh \in OrderShapes : \A k \in 1..22 :
           Overwritten(Here, write(Machine(CutAt(k)), i, MaxSteps + 2,
                                   sh[2], sh[1]).m)

\* a write into the indirect range is cut after the write-back of the
\* indirect block and before the data: the new leaf is on the device, zero
AllocationOrderDone ==
  /\ disk_mounted
  /\ \E i \in ValidSlots(Here) : \E k \in 1..22 :
       LET w == write(Machine(CutAt(k)), i, MaxSteps + 2, BLOCK_SIZE + 1,
                      IndirectStart).m
       IN  /\ StoredInode(Here, i).indirect_block # 0
           /\ \E b \in Range(PointersFrom(w, 0)) \ UsedBlocks(Here) :
                w.image[b] = ZeroBlock /\ Here.image[b] # ZeroBlock

(***************************************************************************)
(* C33: the frame of a write.  A write that returns len has stored the     *)
(* size max(old size, offset + len), and the file then reads as before     *)
(* outside [offset, offset + len), with zeros from the old size up to the  *)
(* offset, and as the caller's buffer inside.                              *)
(***************************************************************************)
\* the file after a write of buf(seed) at [offset, offset + len) to a file
\* that read as `before`
Framed(before, seed, offset, len) ==
  (IF offset <= Len(before) THEN SubSeq(before, 1, offset)
   ELSE before \o Zeros(offset - Len(before)))
    \o DataBytes(seed, 0, len)
    \o SubSeq(before, offset + len + 1, Len(before))

\* the step is a write to an allocated inode that returned len
WriteDone ==
  /\ disk_mounted
  /\ last'.op = "write" /\ last'.inode \in ValidSlots(Here)
  /\ last'.r = last'.len

FrameOf(size) ==
  /\ stat(There, last'.inode).r = Max(size, last'.offset + last'.len)
  /\ read(There, last'.inode, Max(size, last'.offset + last'.len), 0).data
       = Framed(read(Here, last'.inode, size, 0).data, last'.seed,
                last'.offset, last'.len)

WriteFrameBytes ==
  [][(WriteDone /\ last'.len > 0)
       => FrameOf(StoredInode(Here, last'.inode).size)]_vars

\* a write of one byte into the second block of a file of more than two
\* blocks: the size and the other bytes are as they were
WriteFrameDone ==
  /\ disk_mounted
  /\ last.op = "write" /\ last.r = 1 /\ last.offset = BLOCK_SIZE
  /\ stat(Here, last.inode).r > 2 * BLOCK_SIZE
  /\ read(Here, last.inode, 1, BLOCK_SIZE).data = <<Data(last.seed, 0)>>
  /\ read(Here, last.inode, 1, BLOCK_SIZE + 1).data # <<0>>

(***************************************************************************)
(* C34: mount reconstruction.  The mount of an image whose pointers lie in *)
(* the data region (I1) succeeds and marks used exactly blocks             *)
(* 0..num_inode_blocks and every block that the tree of a valid inode      *)
(* reaches: direct pointers, the indirect block and its entries, the       *)
(* double-indirect block, its indirect blocks and their entries.           *)
(***************************************************************************)
\* the blocks a mount has to mark for the image of m
Reconstructed(m) ==
  (0..m.superblock.num_inode_blocks) \cup Range(PointersFrom(m, 0))

\* the image holds a file with blocks
HoldsBlocks(m) == I1(m) /\ PointersFrom(m, 0) # <<>>

ScanReconstructs ==
  (disk_mounted /\ HoldsBlocks(Here))
    => /\ MountScan([MountOpen(unmount(Here).m).m
                       EXCEPT !.disk_mounted = TRUE], 0).r = 0
       /\ UsedBlocks(MountScan([MountOpen(unmount(Here).m).m
                                  EXCEPT !.disk_mounted = TRUE], 0).m)
            = Reconstructed(Here)

(***************************************************************************)
(* C35: a stored valid byte outside {0, 1}.  A slot whose valid byte on    *)
(* the device is neither 0 nor 1 counts as free: stat, read, write and     *)
(* delete on it return E_INVALID_INODE and create hands out the lowest     *)
(* such slot.                                                              *)
(***************************************************************************)
\* the volume m, with the valid byte of slot i on the device set to v
WithValid(m, i, v) ==
  [m EXCEPT !.image[1 + (i \div INODES_PER_BLOCK)]
                   [(i % INODES_PER_BLOCK) * INODE_SIZE] = v]

ReadOnly ==
  [][(last'.op \in {"stat", "read"})
       => /\ image' = image
          /\ block_bitmap' = block_bitmap
          /\ superblock' = superblock
          /\ disk_mounted' = disk_mounted
          /\ disk_on' = disk_on
          /\ mounted_disk' = mounted_disk]_vars

\* a read through the indirect block of a file has returned a byte, with
\* free blocks left on the volume
ReadOnlyDone ==
  /\ disk_mounted
  /\ last.op = "read" /\ last.r > 0 /\ last.offset >= IndirectStart
  /\ FreeData(Here) # {}

\* a read has been stopped by the device
ReadOnlyFailed ==
  /\ disk_mounted
  /\ last.op = "read" /\ last.failures > 0

(***************************************************************************)
(* C37: inode isolation.  On a device that does not fail, a create, a      *)
(* write or a delete leaves every other allocated inode as it was: stat    *)
(* returns the same size for it and read returns the same bytes.           *)
(***************************************************************************)
\* the inode that the step is on: the one create returned, or the argument
Touched == IF last'.op = "create" THEN last'.r ELSE last'.inode

SameFile(j) ==
  /\ stat(There, j).r = stat(Here, j).r
  /\ read(There, j, stat(Here, j).r, 0).r = stat(Here, j).r
  /\ read(There, j, stat(Here, j).r, 0).data
       = read(Here, j, stat(Here, j).r, 0).data

Isolation ==
  [][(disk_mounted /\ last'.op \in {"create", "write", "delete"})
       => \A j \in ValidSlots(Here) \ {Touched} : SameFile(j)]_vars

\* a write has stored bytes in a file next to another file that holds bytes
IsolationDone ==
  /\ disk_mounted
  /\ last.op = "write" /\ last.r > 0
  /\ \E j \in ValidSlots(Here) \ {last.inode} : stat(Here, j).r > 0
  /\ stat(Here, last.inode).r > 0

\* a delete next to a file that holds bytes
IsolationDeleted ==
  /\ disk_mounted
  /\ last.op = "delete" /\ last.r = 0
  /\ \E j \in ValidSlots(Here) : stat(Here, j).r > 0

WithInodeBlocks(m, n) ==
  [m EXCEPT !.image[0] = PutBytes(@, 20, U32Bytes(n))]

MountInBounds ==
  (~disk_mounted /\ GetBytes(image[0], 0, 16) = MAGIC_NUMBER)
    => \A n \in { DecodeSuperblock(image[0]).num_blocks - 1,
                  DecodeSuperblock(image[0]).num_blocks,
                  DecodeSuperblock(image[0]).num_blocks + 1 } :
         ~mount(WithInodeBlocks(Here, n)).m.oob

(***************************************************************************)
(* C40 on a device that does not fail.  What read returns of an inode,     *)
(* asked for more than the file holds, is nothing right after the create   *)
(* of the inode; after a                                                   *)
(* write to it, what it was before with the bytes written laid over it and *)
(* zeros in the gap; and after any other call what it was before.  So      *)
(* every byte read of an inode was written to it since its creation or is  *)
(* a zero of the fill: never a byte or a pointer left in a block by a file *)
(* deleted since.                                                          *)
(***************************************************************************)
\* everything read returns of inode j
Content(m, j) == read(m, j, stat(m, j).r + BLOCK_SIZE, 0).data

\* `after` is `before` with zeros behind it
ZeroGrown(before, after) ==
  /\ Len(after) >= Len(before)
  /\ after = before \o Zeros(Len(after) - Len(before))

NoStaleData ==
  [][(disk_mounted /\ last'.op \in {"create", "write", "delete"})
       => \A j \in ValidSlots(There) :
            IF last'.op = "create" /\ j = last'.r
              THEN Content(There, j) = <<>>
            ELSE IF last'.op = "write" /\ j = last'.inode /\ last'.r > 0
              THEN Content(There, j)
                     = Framed(Content(Here, j), last'.seed, last'.offset, last'.r)
            ELSE IF last'.op = "write" /\ j = last'.inode
              THEN ZeroGrown(Content(Here, j), Content(There, j))
            ELSE Content(There, j) = Content(Here, j)]_vars

\* The file that was there at the start, in slot 0 with a byte in the first
\* data block, is deleted; the file of slot 1 has that block as its first
\* and reads as zeros up to the byte written behind its indirect block.
NoStaleDataDone ==
  /\ disk_mounted
  /\ last.op = "write" /\ last.r = 1 /\ last.offset = IndirectStart
  /\ last.inode = 1 /\ ValidSlots(Here) = {1}
  /\ StoredInode(Here, 1).direct_blocks[0] = 1 + superblock.num_inode_blocks
  /\ Content(Here, 1) = Zeros(IndirectStart) \o <<Data(last.seed, 0)>>

====
